---- MODULE Spec2Model ----
(***************************************************************************)
(* file-to-image: binary container codec, pixel mapper and dimension       *)
(* planner (src/js/utils/canvas.js and its single-file predecessor         *)
(* src/unnamed/part_001).                                                  *)
(*                                                                         *)
(* Byte buffers (ArrayBuffer, Uint8Array, Uint8ClampedArray) are sequences *)
(* of naturals 0..255; the JavaScript index k is the sequence index k+1.   *)
(* Strings are sequences of code points; TextEncoder / TextDecoder are the *)
(* operators Utf8Encode / Utf8Decode.                                      *)
(***************************************************************************)
EXTENDS Integers, Sequences, FiniteSets, TLC

(***************************************************************************)
(* Bounds of the model                                                     *)
(***************************************************************************)
\* planner: number of files and payload size of each
MaxPlanFiles == 2
MaxPlanSize == 12
\* container: files per encode call, bytes by which a long name exceeds the
\* stored maximum, entry headers in a loaded image
MaxFiles == 2
NameExcess == 1
MaxRawEntries == 3
\* single file: payload bytes, a third of the chunk size, rows of a loaded
\* image and the payload length its header declares
MaxPayload == 76
ChunkThirds == 22
MaxGridHeight == 5
MaxDeclared == 18
MaxPreviewPayload == 6
MaxThrowAt == 2

\* workers: bytes in a buffer, bytes per chunk, rows of the grid
MaxWorkerBytes == 5
MaxWorkerChunk == 3
MaxWorkerHeight == 2

\* worker handles: Worker objects constructed
MaxWorkers == 4

\* embed tab: files in the selection, files in a batch
MaxSelected == 3
MaxBatch == 2

(***************************************************************************)
(* Program constants                                                       *)
(***************************************************************************)
HEADER_SIZE == 64
FILE_HEADER_SIZE == 128
LEGACY_HEADER_SIZE == 32
\* CHUNK_SIZE = 1024 * 512 = 3 * 174762 + 2 bytes. The model keeps the
\* remainder 2 modulo 3 and scales the quotient down to ChunkThirds; a chunk
\* still holds the whole header of either format.
CHUNK_SIZE == 3 * ChunkThirds + 2
MAX_SINGLE_NAME_BYTES == 20
MAX_SINGLE_MIME_BYTES == 8

(***************************************************************************)
(* Arithmetic helpers                                                      *)
(***************************************************************************)
Min(a, b) == IF a < b THEN a ELSE b

\* Math.ceil(a / b) for integers a >= 0, b > 0
CeilDiv(a, b) == (a + b - 1) \div b

\* Math.ceil(Math.sqrt(p)) for an integer p >= 0
CeilSqrt(p) == CHOOSE s \in 0..p : s * s >= p /\ (s = 0 \/ (s - 1) * (s - 1) < p)

RECURSIVE SumSeq(_)
SumSeq(s) == IF s = <<>> THEN 0 ELSE Head(s) + SumSeq(Tail(s))

(***************************************************************************)
(* Byte buffers, typed arrays and DataView                                 *)
(***************************************************************************)
Zeros(n) == [i \in 1..n |-> 0]

\* the bytes at JavaScript indices from .. to-1 (subarray / slice / a view)
Slice(buf, from, to) == [i \in 1..(to - from) |-> buf[from + i]]

\* bytes of a under TypedArray.prototype.set(src, off), the range being valid
Patch(a, src, off) ==
    [i \in 1..Len(a) |-> IF i > off /\ i <= off + Len(src) THEN src[i - off] ELSE a[i]]

\* A typed array with its DataView while a function body runs: err records
\* the exception that ended the body ("none" while it is still running).
Running(b) == [err |-> "none", bytes |-> b]
Thrown(r, e) == [err |-> e, bytes |-> r.bytes]

\* TypedArray.prototype.set: RangeError when the source does not fit
setBytes(r, src, off) ==
    IF r.err # "none" THEN r
    ELSE IF off + Len(src) > Len(r.bytes) THEN Thrown(r, "RangeError")
    ELSE Running(Patch(r.bytes, src, off))

\* DataView.prototype.setUint8 / setUint16 / setUint32 (little endian):
\* RangeError when offset + size exceeds the view, value taken modulo 2^w
setUint8(r, off, v) ==
    IF r.err # "none" THEN r
    ELSE IF off + 1 > Len(r.bytes) THEN Thrown(r, "RangeError")
    ELSE Running(Patch(r.bytes, <<v % 256>>, off))

setUint16(r, off, v) ==
    IF r.err # "none" THEN r
    ELSE IF off + 2 > Len(r.bytes) THEN Thrown(r, "RangeError")
    ELSE Running(Patch(r.bytes, <<v % 256, (v \div 256) % 256>>, off))

setUint32(r, off, v) ==
    IF r.err # "none" THEN r
    ELSE IF off + 4 > Len(r.bytes) THEN Thrown(r, "RangeError")
    ELSE Running(Patch(r.bytes,
                       <<v % 256, (v \div 256) % 256,
                         (v \div 65536) % 256, (v \div 16777216) % 256>>, off))

\* DataView.prototype.getUint8 / getUint16 / getUint32 (little endian) on a
\* range inside the buffer; InView is the range check that otherwise throws
InView(buf, off, n) == off + n <= Len(buf)
getUint8(buf, off) == buf[off + 1]
getUint16(buf, off) == buf[off + 1] + 256 * buf[off + 2]
getUint32(buf, off) ==
    buf[off + 1] + 256 * buf[off + 2] + 65536 * buf[off + 3] + 16777216 * buf[off + 4]

(***************************************************************************)
(* TextEncoder / TextDecoder (UTF-8)                                       *)
(***************************************************************************)
REPLACEMENT == 65533
BOM == 65279

\* the UTF-8 bytes of one code point
Utf8Bytes(c) ==
    IF c < 128 THEN <<c>>
    ELSE IF c < 2048 THEN <<192 + (c \div 64), 128 + (c % 64)>>
    ELSE IF c < 65536
         THEN <<224 + (c \div 4096), 128 + ((c \div 64) % 64), 128 + (c % 64)>>
    ELSE <<240 + (c \div 262144), 128 + ((c \div 4096) % 64),
           128 + ((c \div 64) % 64), 128 + (c % 64)>>

\* new TextEncoder().encode(s): the UTF-8 bytes of the code points of s, in
\* order (the string is split in halves to keep the evaluation shallow)
RECURSIVE Utf8Encode(_)
Utf8Encode(s) ==
    IF s = <<>> THEN <<>>
    ELSE IF Len(s) = 1 THEN Utf8Bytes(s[1])
    ELSE LET h == Len(s) \div 2
         IN  Utf8Encode(SubSeq(s, 1, h)) \o Utf8Encode(SubSeq(s, h + 1, Len(s)))

\* the last index of the run of ASCII bytes of b that starts at index i
AsciiRunEnd(b, i) ==
    CHOOSE j \in i..Len(b) :
        /\ \A k \in i..j : b[k] <= 127
        /\ (j = Len(b) \/ b[j + 1] > 127)

\* The UTF-8 decoder of the Encoding standard: cp is the code point being
\* assembled, need the continuation bytes still missing, lo..hi the range
\* allowed for the next byte.  A malformed or cut-off sequence yields U+FFFD.
\* A run of ASCII bytes is taken in one step.
RECURSIVE Utf8Run(_, _, _, _, _, _)
Utf8Run(b, i, cp, need, lo, hi) ==
    IF i > Len(b) THEN (IF need # 0 THEN <<REPLACEMENT>> ELSE <<>>)
    ELSE LET x == b[i] IN
         IF need = 0
         THEN IF x <= 127
              THEN LET j == AsciiRunEnd(b, i)
                   IN  SubSeq(b, i, j) \o Utf8Run(b, j + 1, 0, 0, 128, 191)
              ELSE IF x >= 194 /\ x <= 223
                   THEN Utf8Run(b, i + 1, x % 32, 1, 128, 191)
              ELSE IF x >= 224 /\ x <= 239
                   THEN Utf8Run(b, i + 1, x % 16, 2,
                                IF x = 224 THEN 160 ELSE 128,
                                IF x = 237 THEN 159 ELSE 191)
              ELSE IF x >= 240 /\ x <= 244
                   THEN Utf8Run(b, i + 1, x % 8, 3,
                                IF x = 240 THEN 144 ELSE 128,
                                IF x = 244 THEN 143 ELSE 191)
              ELSE <<REPLACEMENT>> \o Utf8Run(b, i + 1, 0, 0, 128, 191)
         ELSE IF x < lo \/ x > hi
              THEN <<REPLACEMENT>> \o Utf8Run(b, i, 0, 0, 128, 191)
              ELSE IF need = 1
                   THEN <<(cp * 64) + (x % 64)>> \o Utf8Run(b, i + 1, 0, 0, 128, 191)
                   ELSE Utf8Run(b, i + 1, (cp * 64) + (x % 64), need - 1, 128, 191)

\* new TextDecoder().decode(bytes): UTF-8, a leading byte order mark dropped
Utf8Decode(b) ==
    LET s == Utf8Run(b, 1, 0, 0, 128, 191)
    IN  IF s # <<>> /\ Head(s) = BOM THEN Tail(s) ELSE s

(***************************************************************************)
(* Dimension planner                                                       *)
(***************************************************************************)
\* PlanDims with the pixel count rounded down instead of up
PlanDims_floor(totalSize) ==
    LET totalPixelsNeeded == totalSize \div 3
        side == CeilSqrt(totalPixelsNeeded)
        width == IF side % 2 = 0 THEN side ELSE side + 1
        height == CeilDiv(totalPixelsNeeded, width)
    IN  [width |-> width, height |-> height]

\* the sizing body of calculateCanvasSizeForFiles: pixels, side, even width
PlanDims(totalSize) ==
    LET totalPixelsNeeded == CeilDiv(totalSize, 3)
        side == CeilSqrt(totalPixelsNeeded)
        width == IF side % 2 = 0 THEN side ELSE side + 1
        height == CeilDiv(totalPixelsNeeded, width)
    IN  [width |-> width, height |-> height]

\* total size accumulated by calculateCanvasSizeForFiles over the files
FilesTotalSize(sizes) == HEADER_SIZE + Len(sizes) * FILE_HEADER_SIZE + SumSeq(sizes)

\* calculateCanvasSizeForFiles(files); a file is given by its data.byteLength
calculateCanvasSizeForFiles(sizes) == PlanDims(FilesTotalSize(sizes))

\* canvas.js calculateCanvasSize: one anonymous file of byteLength bytes
calculateCanvasSize(byteLength) == calculateCanvasSizeForFiles(<<byteLength>>)

\* part_001 calculateCanvasSize: the payload plus the 32-byte header
calculateCanvasSizeLegacy(byteLength) ==
    LET totalPixelsNeeded == CeilDiv(byteLength + LEGACY_HEADER_SIZE, 3)
        side == CeilSqrt(totalPixelsNeeded)
        width == IF side % 2 = 0 THEN side ELSE side + 1
        height == CeilDiv(totalPixelsNeeded, width)
    IN  [width |-> width, height |-> height]

(***************************************************************************)
(* Container codec: encodeFilesToCanvas (serialize)                        *)
(***************************************************************************)
\* 'F2P1'
MAGIC == <<70, 50, 80, 49>>
FORMAT_VERSION == 1
MAX_FILES == 255
MAX_NAME_BYTES == 100
MAX_MIME_BYTES == 20

\* 'application/octet-stream'
DEFAULT_MIME ==
    <<97, 112, 112, 108, 105, 99, 97, 116, 105, 111, 110, 47,
      111, 99, 116, 101, 116, 45, 115, 116, 114, 101, 97, 109>>

\* the 64-byte main header: magic, version, file count, reserved zeros
MainHeader(fileCount) ==
    LET h0 == Running(Zeros(HEADER_SIZE))
        h1 == setUint8(h0, 0, MAGIC[1])
        h2 == setUint8(h1, 1, MAGIC[2])
        h3 == setUint8(h2, 2, MAGIC[3])
        h4 == setUint8(h3, 3, MAGIC[4])
        h5 == setUint8(h4, 4, FORMAT_VERSION)
    IN  setUint8(h5, 5, fileCount)

\* one pass of the header loop: the 128-byte header of file, whose payload
\* starts at dataOffset in the data section
FileHeader(file, dataOffset) ==
    LET nameBytes == Utf8Encode(file.name)
        mimeBytes == Utf8Encode(IF file.type = <<>> THEN DEFAULT_MIME ELSE file.type)
        nameLength == Min(Len(nameBytes), MAX_NAME_BYTES)
        mimeLength == Min(Len(mimeBytes), MAX_MIME_BYTES)
        fileSize == Len(file.data)
        f0 == Running(Zeros(FILE_HEADER_SIZE))
        f1 == setUint16(f0, 0, nameLength)
        f2 == setBytes(f1, Slice(nameBytes, 0, nameLength), 2)
        f3 == setUint8(f2, 102, mimeLength)
        f4 == setBytes(f3, Slice(mimeBytes, 0, mimeLength), 103)
        f5 == setUint32(f4, 123, fileSize)
    IN  setUint32(f5, 127, dataOffset)

\* the header loop over files[i .. fileCount-1]; an exception ends it
RECURSIVE PrepareHeaders(_, _, _, _, _, _)
PrepareHeaders(files, i, fileCount, dataOffset, totalSize, fileHeaders) ==
    IF i >= fileCount
    THEN [err |-> "none", fileHeaders |-> fileHeaders, totalSize |-> totalSize]
    ELSE LET file == files[i + 1]
             fh == FileHeader(file, dataOffset)
         IN  IF fh.err # "none"
             THEN [err |-> fh.err, fileHeaders |-> fileHeaders, totalSize |-> totalSize]
             ELSE PrepareHeaders(files, i + 1, fileCount,
                                 dataOffset + Len(file.data),
                                 totalSize + FILE_HEADER_SIZE + Len(file.data),
                                 Append(fileHeaders, fh.bytes))

\* buffer.set(part, offset); offset += part.length, for each part in order
RECURSIVE CopyParts(_, _, _)
CopyParts(r, parts, offset) ==
    IF parts = <<>> THEN r
    ELSE CopyParts(setBytes(r, Head(parts), offset), Tail(parts), offset + Len(Head(parts)))

\* encodeFilesToCanvas up to the combined buffer: [err, buffer]
BuildContainer(files) ==
    LET fileCount == Min(Len(files), MAX_FILES)
        header == MainHeader(fileCount)
        prep == PrepareHeaders(files, 0, fileCount, 0, HEADER_SIZE, <<>>)
        payloads == [i \in 1..fileCount |-> files[i].data]
        filled == CopyParts(Running(Zeros(prep.totalSize)),
                            <<header.bytes>> \o prep.fileHeaders \o payloads, 0)
    IN  IF header.err # "none" THEN [err |-> header.err, buffer |-> <<>>]
        ELSE IF prep.err # "none" THEN [err |-> prep.err, buffer |-> <<>>]
        ELSE [err |-> filled.err, buffer |-> filled.bytes]

\* the fractions offset / totalSize passed to progressCallback by the loop
\* that copies the payloads, one after each file copied
CopyProgress(files) ==
    LET fileCount == Min(Len(files), MAX_FILES)
        sizes == [i \in 1..fileCount |-> Len(files[i].data)]
        headers == HEADER_SIZE + (fileCount * FILE_HEADER_SIZE)
    IN  [i \in 1..fileCount |->
            [num |-> headers + SumSeq(SubSeq(sizes, 1, i)),
             den |-> headers + SumSeq(sizes)]]

(***************************************************************************)
(* Container codec: extractFilesFromCanvas (deserialize)                   *)
(***************************************************************************)
\* the magic test, byte by byte with the short-circuit of ||
RECURSIVE MagicCheck(_, _)
MagicCheck(buf, k) ==
    IF k >= Len(MAGIC) THEN "none"
    ELSE IF ~InView(buf, k, 1) THEN "RangeError"
    ELSE IF getUint8(buf, k) # MAGIC[k + 1] THEN "InvalidMagic"
    ELSE MagicCheck(buf, k + 1)

\* the fields read from the entry header at offset, and the payload range
\* computed from them
EntryAt(buf, fileCount, offset) ==
    LET nameLength == getUint16(buf, offset)
        nameBytes == Slice(buf, offset + 2, offset + 2 + Min(MAX_NAME_BYTES, nameLength))
        mimeLength == getUint8(buf, offset + 102)
        mimeBytes == Slice(buf, offset + 103, offset + 103 + Min(MAX_MIME_BYTES, mimeLength))
        size == getUint32(buf, offset + 123)
        dataOffset == getUint32(buf, offset + 127)
        dataStart == HEADER_SIZE + (fileCount * FILE_HEADER_SIZE) + dataOffset
    IN  [name |-> Utf8Decode(nameBytes),
         type |-> IF mimeLength > 0 THEN Utf8Decode(mimeBytes) ELSE DEFAULT_MIME,
         dataStart |-> dataStart,
         dataEnd |-> dataStart + size]

\* the header-reading loop from entry i on, offset being the read position;
\* the read of the data offset at offset+127 throws when it leaves the buffer.
\* progress holds the fractions passed to progressCallback so far, reported
\* after each entry pushed; with cancelled the callback throws when called.
RECURSIVE ReadEntries(_, _, _, _, _, _, _)
ReadEntries(buf, i, fileCount, offset, files, progress, cancelled) ==
    IF i >= fileCount THEN [err |-> "none", files |-> files, progress |-> progress]
    ELSE IF offset + FILE_HEADER_SIZE > Len(buf)
         THEN [err |-> "none", files |-> files, progress |-> progress]
    ELSE IF ~InView(buf, offset + 127, 4)
         THEN [err |-> "RangeError", files |-> files, progress |-> progress]
    ELSE LET e == EntryAt(buf, fileCount, offset)
             pushed == Append(files, [name |-> e.name, type |-> e.type,
                                      data |-> Slice(buf, e.dataStart, e.dataEnd)])
             reported == Append(progress, [num |-> i + 1, den |-> fileCount + 1])
         IN  IF e.dataEnd > Len(buf)
             THEN ReadEntries(buf, i + 1, fileCount, offset, files, progress, cancelled)
             ELSE IF cancelled
             THEN [err |-> "Cancelled", files |-> pushed, progress |-> reported]
             ELSE ReadEntries(buf, i + 1, fileCount, offset + FILE_HEADER_SIZE,
                              pushed, reported, cancelled)

\* the outcome of the parsing callback when it throws err
ParseFailed(err, progress) == [err |-> err, files |-> <<>>, progress |-> progress]

\* ParseContainer with the file count tested before the version
ParseContainer_countFirst(buf, cancelled) ==
    LET magic == MagicCheck(buf, 0)
        fileCount == getUint8(buf, 5)
        read == ReadEntries(buf, 0, fileCount, HEADER_SIZE, <<>>, <<>>, cancelled)
    IN  IF magic # "none" THEN ParseFailed(magic, <<>>)
        ELSE IF ~InView(buf, 5, 1) THEN ParseFailed("RangeError", <<>>)
        ELSE IF fileCount = 0 THEN ParseFailed("NoFiles", <<>>)
        ELSE IF getUint8(buf, 4) # FORMAT_VERSION
             THEN ParseFailed("UnsupportedVersion", <<>>)
        ELSE IF read.err # "none" THEN ParseFailed(read.err, read.progress)
        ELSE IF read.files = <<>> THEN ParseFailed("NoValidFiles", read.progress)
        ELSE read

\* the parsing callback of extractFilesFromCanvas: [err, files, progress]; err
\* is the error the promise is rejected with, "none" when it resolves with
\* files; cancelled tells whether progressCallback throws
\* 'Operation cancelled' when it is called
ParseContainer(buf, cancelled) ==
    LET magic == MagicCheck(buf, 0)
        fileCount == getUint8(buf, 5)
        read == ReadEntries(buf, 0, fileCount, HEADER_SIZE, <<>>, <<>>, cancelled)
    IN  IF magic # "none" THEN ParseFailed(magic, <<>>)
        ELSE IF ~InView(buf, 4, 1) THEN ParseFailed("RangeError", <<>>)
        ELSE IF getUint8(buf, 4) # FORMAT_VERSION
             THEN ParseFailed("UnsupportedVersion", <<>>)
        ELSE IF ~InView(buf, 5, 1) THEN ParseFailed("RangeError", <<>>)
        ELSE IF fileCount = 0 THEN ParseFailed("NoFiles", <<>>)
        ELSE IF read.err # "none" THEN ParseFailed(read.err, read.progress)
        ELSE IF read.files = <<>> THEN ParseFailed("NoValidFiles", read.progress)
        ELSE read

(***************************************************************************)
(* Pixel mapper, single-file path: encodeFileToCanvas                      *)
(***************************************************************************)
\* the single-file header of headerSize bytes: name length and at most 20
\* name bytes, mime length and at most 8 mime bytes, payload length
SingleHeader(headerSize, filename, mimeType, byteLength) ==
    LET filenameBytes == Utf8Encode(filename)
        mimeBytes == Utf8Encode(mimeType)
        h0 == Running(Zeros(headerSize))
        h1 == setUint16(h0, 0, Len(filenameBytes))
        h2 == setBytes(h1, Slice(filenameBytes, 0,
                                 Min(Len(filenameBytes), MAX_SINGLE_NAME_BYTES)), 2)
        h3 == setUint16(h2, 22, Len(mimeBytes))
        h4 == setBytes(h3, Slice(mimeBytes, 0,
                                 Min(Len(mimeBytes), MAX_SINGLE_MIME_BYTES)), 24)
    IN  setUint32(h4, 28, byteLength)

\* combined = header followed by the file data
CombinedBuffer(headerSize, file) ==
    CopyParts(Running(Zeros(headerSize + Len(file.data))),
              <<SingleHeader(headerSize, file.name, file.type, Len(file.data)).bytes,
                file.data>>, 0)

\* the values i of the loop  for (i = start; i < end; i += 3)
ChunkIters(start, end) == {i \in start..(end - 1) : (i - start) % 3 = 0}

\* imageData.data after processChunk(start) of the encoder. Iteration i
\* stores at pixelIndex + c with pixelIndex = (i / 3) * 4: element 4p + c is
\* stored by the iteration i = 3p if the loop visits it. When i is not a
\* multiple of 3 the index is not an integer and the typed array ignores the
\* store.
EncodeChunkData(data, combined, start) ==
    LET end == Min(start + CHUNK_SIZE, Len(combined))
    IN  [j \in 1..Len(data) |->
            LET p == (j - 1) \div 4
                c == (j - 1) % 4
                i == 3 * p
            IN  IF i \in ChunkIters(start, end)
                THEN IF c = 3 THEN 255
                     ELSE IF i + c < Len(combined) THEN combined[i + c + 1] ELSE 0
                ELSE data[j]]

\* the number of putImageData calls after a chunk: a chunk commits the grid at
\* every call
Commits_everyChunk(more, commits) == commits + 1

\* the number of putImageData calls after a chunk: only the chunk that
\* requests no further frame draws the final image
Commits(more, commits) == IF more THEN commits ELSE commits + 1

\* the canvas bitmap after putImageData: alpha is premultiplied, so a fully
\* transparent pixel keeps no colour (alpha is 0 or 255 in every grid here)
Premultiplied(data) ==
    [j \in 1..Len(data) |->
        IF data[4 * ((j - 1) \div 4) + 4] = 0 THEN 0 ELSE data[j]]

(***************************************************************************)
(* Pixel mapper, multi-file path: encodeBufferToCanvas                     *)
(***************************************************************************)
\* The loop of processChunk(start) runs over 6-bit groups i, of which the
\* buffer holds byteLength * 8 / 6 = 4 * byteLength / 3 (not an integer in
\* general): i < end with end = min(start + CHUNK_SIZE, 4 * byteLength / 3).
InBufferChunk(i, start, byteLength) ==
    i >= start /\ i < start + CHUNK_SIZE /\ 3 * i < 4 * byteLength

\* end < byteLength * 8 / 6: another chunk follows the one starting at start
MoreBufferChunks(start, byteLength) == 3 * (start + CHUNK_SIZE) < 4 * byteLength

\* BufferProgress reporting the part of the buffer still to be written
BufferProgress_remaining(start, byteLength) ==
    IF MoreBufferChunks(start, byteLength) \/ 3 * (start + CHUNK_SIZE) = 4 * byteLength
    THEN [num |-> (4 * byteLength) - (3 * (start + CHUNK_SIZE)), den |-> 4 * byteLength]
    ELSE [num |-> 0, den |-> 4 * byteLength]

\* the fraction end / (byteLength * 8 / 6) passed to progressCallback by
\* processChunk(start), as num / den with den = 4 * byteLength
BufferProgress(start, byteLength) ==
    IF MoreBufferChunks(start, byteLength) \/ 3 * (start + CHUNK_SIZE) = 4 * byteLength
    THEN [num |-> 3 * (start + CHUNK_SIZE), den |-> 4 * byteLength]
    ELSE [num |-> 4 * byteLength, den |-> 4 * byteLength]

\* the 6-bit value of group i: ((byte1 << 8) | byte2) >> (10 - bitOffset) & 0x3F
SixBits(buffer, i) ==
    LET byteIndex == (i * 3) \div 4
        bitOffset == (i * 6) % 8
        word == (256 * buffer[byteIndex + 1]) + buffer[byteIndex + 2]
    IN  (word \div (2 ^ (10 - bitOffset))) % 64

\* imageData.data after processChunk(start): group i of the chunk sets pixel
\* i to R = (value >> 4) * 51, G = ((value >> 2) & 3) * 85, B = (value & 3) *
\* 85, A = 255 when byteIndex + 1 lies inside the buffer; a store beyond
\* the end of data is ignored
EncodeBufferChunkData(data, buffer, start) ==
    [j \in 1..Len(data) |->
        LET i == (j - 1) \div 4
            c == (j - 1) % 4
            value == SixBits(buffer, i)
        IN  IF InBufferChunk(i, start, Len(buffer)) /\ ((i * 3) \div 4) + 1 < Len(buffer)
            THEN CASE c = 0 -> (value \div 16) * 51
                   [] c = 1 -> ((value \div 4) % 4) * 85
                   [] c = 2 -> (value % 4) * 85
                   [] OTHER -> 255
            ELSE data[j]]

(***************************************************************************)
(* Pixel mapper, single-file path: decodeFileFromCanvas                    *)
(***************************************************************************)
\* data[k] stored into a Uint8Array: undefined (k outside data) becomes 0
ReadIdx(data, k) == IF k < Len(data) THEN data[k + 1] ELSE 0

\* the header bytes read from the first 11 pixels, R, G, B of each in turn
ReadHeader(data) ==
    [k \in 1..LEGACY_HEADER_SIZE |->
        ReadIdx(data, 4 * ((k - 1) \div 3) + ((k - 1) % 3))]

\* filename, mimeType and dataLength as decoded from the header bytes
DecodeHeader(header) ==
    LET filenameLength == getUint16(header, 0)
        filenameBytes == Slice(header, 2, 2 + Min(MAX_SINGLE_NAME_BYTES, filenameLength))
        mimeLength == getUint16(header, 22)
        mimeBytes == Slice(header, 24, 24 + Min(MAX_SINGLE_MIME_BYTES, mimeLength))
    IN  [filename |-> Utf8Decode(filenameBytes),
         mimeType |-> IF mimeLength > 0 THEN Utf8Decode(mimeBytes) ELSE DEFAULT_MIME,
         dataLength |-> getUint32(header, 28)]

\* LengthCheck with the header left out of the capacity needed
LengthCheck_noHeader(dataLength, width, height) ==
    IF dataLength <= 0 \/ dataLength > width * height * 3
    THEN "InvalidDataLength"
    ELSE IF CeilDiv(dataLength, 3) > width * height
    THEN "NotEnoughData"
    ELSE "none"

\* the two checks made before any payload is read: the error thrown, or "none"
LengthCheck(dataLength, width, height) ==
    IF dataLength <= 0 \/ dataLength > (width * height * 3) - LEGACY_HEADER_SIZE
    THEN "InvalidDataLength"
    ELSE IF CeilDiv(dataLength + LEGACY_HEADER_SIZE, 3) > width * height
    THEN "NotEnoughData"
    ELSE "none"

\* [extracted, bytesExtracted] after processChunk(startPixel) of the decoder:
\* every pixel of the chunk with 3i - HEADER_SIZE >= 0 appends its R, G and B
\* while bytesExtracted < dataLength
DecodeChunkData(data, extracted, bytesExtracted, dataLength, startPixel, endPixel) ==
    LET skipped == {i \in startPixel..(endPixel - 1) : (i * 3) - LEGACY_HEADER_SIZE < 0}
        first == startPixel + Cardinality(skipped)
        offered == 3 * (endPixel - first)
        taken == Min(IF offered > 0 THEN offered ELSE 0, dataLength - bytesExtracted)
    IN  [extracted |->
            [k \in 1..Len(extracted) |->
                IF k > bytesExtracted /\ k <= bytesExtracted + taken
                THEN LET n == k - bytesExtracted - 1
                     IN  ReadIdx(data, 4 * (first + (n \div 3)) + (n % 3))
                ELSE extracted[k]],
         bytesExtracted |-> bytesExtracted + taken]

(***************************************************************************)
(* State                                                                   *)
(***************************************************************************)
VARIABLES
    plSizes,    \* planner: data.byteLength of each file handed to the planner
    plCall,     \* planner: which planner entry point has run ("none" before)
    plTotal,    \* planner: total byte length n the canvas must hold
    plDims      \* planner: the {width, height} returned

plannerVars == <<plSizes, plCall, plTotal, plDims>>

VARIABLES
    cSrc,       \* container: "files" (an encode call) or "image" (a loaded image)
    cFiles,     \* container: the files handed to encodeFilesToCanvas
    cBuffer,    \* container: the combined buffer built, or read from the image
    cPc,        \* container: "idle", "mapping", "encoded", "encodeFailed", "extracted",
                \* "extractFailed"
    cErr,       \* container: the error the last call was rejected with, or "none"
    cOut,       \* container: the files extractFilesFromCanvas resolved with
    cImageData, \* container: imageData.data filled by encodeBufferToCanvas
    cEncNext,   \* container: start of the chunk the next frame processes
    cCanvas,    \* container: the canvas: width, height and its bitmap
    cProgress,  \* container: the fractions passed to progressCallback by the
                \* call in progress or last finished, in order
    cCommits    \* container: the number of ctx.putImageData calls made

containerVars ==
    <<cSrc, cFiles, cBuffer, cPc, cErr, cOut, cImageData, cEncNext, cCanvas, cProgress,
      cCommits>>

VARIABLES
    sVer,            \* single file: "legacy" (part_001) or "current" (canvas.js)
    sSrc,            \* "file" (encode, then decode) or "image" (a loaded image)
    sFile,           \* the file handed to encodeFileToCanvas
    sCombined,       \* encoder: header and file data combined
    sImageData,      \* encoder: imageData.data being filled
    sCanvas,         \* the canvas: width, height and its bitmap
    sEncPc,          \* encoder: "idle", "chunking", "done", "rejected", "stalled"
                     \* (promise pending with no frame requested)
    sEncNext,        \* encoder: start of the chunk the next frame processes
    sDecPc,          \* decoder: "idle", "chunking", "resolved", "rejected",
                     \* "stalled" (promise pending with no frame requested)
    sDecNext,        \* decoder: first pixel of the chunk the next frame processes
    sDecHdr,         \* decoder: filename, mimeType, dataLength read from the header
    sExtracted,      \* decoder: extractedData
    sBytesExtracted, \* decoder: bytesExtracted
    sResult,         \* decoder: what the promise resolved with
    sErr,            \* decoder: what the promise was rejected for, or "none"
    sProgress,       \* the fractions passed to progressCallback by the call in
                     \* progress or last finished, in order
    sCommits,        \* encoder: the number of ctx.putImageData calls made
    sThrowAt         \* the progressCallback handed to the last call: the number
                     \* of the report in which it throws, 0 if it never does

singleVars == <<sVer, sSrc, sFile, sCombined, sImageData, sCanvas, sEncPc, sEncNext,
                sDecPc, sDecNext, sDecHdr, sExtracted, sBytesExtracted, sResult, sErr,
                sProgress, sCommits, sThrowAt>>

VARIABLES
    selectedIsPng,  \* extract tab: file.type matches 'image/png'
    selectedBuffer, \* extract tab: the buffer held by the selected image
    tabPc,          \* extract tab: "idle", "loading", "extracting", "done"
    cancelToken,    \* extract tab: cancelToken.cancelled
    modalShown,     \* extract tab: the processing modal with its cancel button
    callbackRaised, \* extract tab: the progress callback threw 'Operation cancelled'
    tabOutcome,     \* extract tab: "none", "success", "cancelled", "failed"
    shownErrors,    \* extract tab: the messages passed to showError, in order
    extractedFiles  \* extract tab: extractedFiles

tabVars == <<selectedIsPng, selectedBuffer, tabPc, cancelToken, modalShown,
             callbackRaised, tabOutcome, shownErrors, extractedFiles>>

VARIABLES
    selectedFiles,  \* embed tab: the file of each handleFileSelect call
    encCalls,       \* embed tab: per call its position ("idle", "reading",
                    \* "chunking", "done", "failed"), combined buffer,
                    \* imageData (width, height, data) and next chunk start
    frameQueue,     \* embed tab: the calls waiting in requestAnimationFrame
    previewCanvas   \* embed tab: previewCanvas: width, height and its bitmap

previewVars == <<selectedFiles, encCalls, frameQueue, previewCanvas>>

VARIABLES
    ewRequest,        \* encode worker: the message received: fileData, width,
                      \* height, chunkSize
    ewPixels,         \* encode worker: pixels
    ewTimer,          \* encode worker: start and end of the chunk the pending
                      \* timer processes
    ewPc,             \* encode worker: "idle", "timer", "complete"
    ewProgress,       \* encode worker: the last 'progress' message posted
    ewCompletes,      \* encode worker: the number of 'complete' messages posted
    dwRequest,        \* decode worker: the message received: headerSize,
                      \* dataLength, chunkSize (imageData is ewPixels)
    dwResult,         \* decode worker: result
    dwBytesProcessed, \* decode worker: bytesProcessed
    dwTimer,          \* decode worker: start and end of the chunk the pending
                      \* timer processes
    dwPc,             \* decode worker: "idle", "timer", "complete"
    dwProgress,       \* decode worker: the last 'progress' message posted
    dwCompletes       \* decode worker: the number of 'complete' messages posted

workerVars == <<ewRequest, ewPixels, ewTimer, ewPc, ewProgress, ewCompletes,
                dwRequest, dwResult, dwBytesProcessed, dwTimer, dwPc, dwProgress,
                dwCompletes>>

VARIABLES
    encodeWorker,   \* worker.js: the encode handle: a worker, or null (0)
    decodeWorker,   \* worker.js: the decode handle: a worker, or null (0)
    workers,        \* every Worker constructed: its type and whether it runs
    lastCall        \* the last exported function called, its argument and
                    \* the worker it returned (0 for none)

handleVars == <<encodeWorker, decodeWorker, workers, lastCall>>

VARIABLES
    embedSelection, \* embed.js: selectedFiles, the size of each file in bytes
    maxSizeInput,   \* embed.js: maxSizeInput.value
    lastBatch       \* embed.js: the handleFiles call, if it is the last handler
                    \* run: the sizes handed in, the selection before it, and
                    \* whether it threw

embedVars == <<embedSelection, maxSizeInput, lastBatch>>

vars == <<plannerVars, containerVars, singleVars, tabVars, previewVars, workerVars,
          handleVars, embedVars>>

NoDims == [width |-> 0, height |-> 0]

(***************************************************************************)
(* Planner specification                                                   *)
(***************************************************************************)
PlanInputs ==
    UNION {[1..k -> 0..MaxPlanSize] : k \in 0..MaxPlanFiles}

PlannerIdle ==
    /\ plSizes = <<>>
    /\ plCall = "none"
    /\ plTotal = 0
    /\ plDims = NoDims

NoFile == [name |-> <<>>, type |-> <<>>, data |-> <<>>]
NoCanvas == [width |-> 0, height |-> 0, data |-> <<>>]
NoHeader == [filename |-> <<>>, mimeType |-> <<>>, dataLength |-> 0]
NoResult == [filename |-> <<>>, mimeType |-> <<>>, data |-> <<>>]

\* the container variables that every run starts with
ContainerStart ==
    /\ cPc = "idle"
    /\ cErr = "none"
    /\ cOut = <<>>
    /\ cImageData = <<>>
    /\ cEncNext = 0
    /\ cCanvas = NoCanvas
    /\ cProgress = <<>>
    /\ cCommits = 0

ContainerIdle ==
    /\ cSrc = "files"
    /\ cFiles = <<>>
    /\ cBuffer = <<>>
    /\ ContainerStart

\* the extract tab before a file is selected
TabStart ==
    /\ tabPc = "idle"
    /\ cancelToken = FALSE
    /\ modalShown = FALSE
    /\ callbackRaised = FALSE
    /\ tabOutcome = "none"
    /\ shownErrors = <<>>
    /\ extractedFiles = <<>>

TabIdle ==
    /\ selectedIsPng = TRUE
    /\ selectedBuffer = <<>>
    /\ TabStart

\* a handleFileSelect call before its change event
NoCall == [pc |-> "idle", combined |-> <<>>, width |-> 0, height |-> 0,
           data |-> <<>>, next |-> 0]

\* the embed tab before any file is selected
PreviewStart ==
    /\ encCalls = <<NoCall, NoCall>>
    /\ frameQueue = <<>>
    /\ previewCanvas = NoCanvas

PreviewIdle ==
    /\ selectedFiles = <<NoFile, NoFile>>
    /\ PreviewStart

\* the single-file variables that every run starts with
SingleStart ==
    /\ sCombined = <<>>
    /\ sImageData = <<>>
    /\ sEncPc = "idle"
    /\ sEncNext = 0
    /\ sDecPc = "idle"
    /\ sDecNext = 0
    /\ sDecHdr = NoHeader
    /\ sExtracted = <<>>
    /\ sBytesExtracted = 0
    /\ sResult = NoResult
    /\ sErr = "none"
    /\ sProgress = <<>>
    /\ sCommits = 0

SingleIdle ==
    /\ sVer = "legacy"
    /\ sSrc = "file"
    /\ sFile = NoFile
    /\ sCanvas = NoCanvas
    /\ sThrowAt = 0
    /\ SingleStart

NoRequest == [fileData |-> <<>>, width |-> 0, height |-> 0, chunkSize |-> 0]
NoDecodeRequest == [headerSize |-> 0, dataLength |-> 0, chunkSize |-> 0]
NoTimer == [start |-> 0, end |-> 0]
NoProgress == [num |-> 0, den |-> 0]

\* the workers before a message is posted to them
WorkerStart ==
    /\ ewPixels = <<>>
    /\ ewTimer = NoTimer
    /\ ewPc = "idle"
    /\ ewProgress = NoProgress
    /\ ewCompletes = 0
    /\ dwRequest = NoDecodeRequest
    /\ dwResult = <<>>
    /\ dwBytesProcessed = 0
    /\ dwTimer = NoTimer
    /\ dwPc = "idle"
    /\ dwProgress = NoProgress
    /\ dwCompletes = 0

WorkerIdle ==
    /\ ewRequest = NoRequest
    /\ WorkerStart

NoWorkerCall == [op |-> "none", type |-> "none", returned |-> 0]

\* worker.js when the module has been loaded
HandleIdle ==
    /\ encodeWorker = 0
    /\ decodeWorker = 0
    /\ workers = <<>>
    /\ lastCall = NoWorkerCall

DEFAULT_MAX_SIZE_MB == 10
MAX_TOTAL_SIZE_MB == 20

NoBatch == [files |-> <<>>, before |-> <<>>, threw |-> FALSE]

\* the embed tab after initEmbedTab
EmbedIdle ==
    /\ embedSelection = <<>>
    /\ maxSizeInput = DEFAULT_MAX_SIZE_MB
    /\ lastBatch = NoBatch

\* the modules that a specification leaves alone
OthersIdle == WorkerIdle /\ HandleIdle /\ EmbedIdle

PlannerInit ==
    /\ plSizes \in PlanInputs
    /\ plCall = "none"
    /\ plTotal = 0
    /\ plDims = NoDims
    /\ ContainerIdle
    /\ SingleIdle
    /\ TabIdle
    /\ PreviewIdle
    /\ OthersIdle

\* embed tab: calculateCanvasSizeForFiles(selectedFiles)
PlanForFiles ==
    /\ plCall = "none"
    /\ plCall' = "forFiles"
    /\ plTotal' = FilesTotalSize(plSizes)
    /\ plDims' = calculateCanvasSizeForFiles(plSizes)
    /\ UNCHANGED <<plSizes, containerVars, singleVars, tabVars, previewVars, workerVars, handleVars, embedVars>>

\* canvas.js calculateCanvasSize(byteLength) on the first file's length
PlanSingle ==
    /\ plCall = "none"
    /\ Len(plSizes) = 1
    /\ plCall' = "single"
    /\ plTotal' = FilesTotalSize(<<plSizes[1]>>)
    /\ plDims' = calculateCanvasSize(plSizes[1])
    /\ UNCHANGED <<plSizes, containerVars, singleVars, tabVars, previewVars, workerVars, handleVars, embedVars>>

\* part_001 calculateCanvasSize(byteLength)
PlanLegacy ==
    /\ plCall = "none"
    /\ Len(plSizes) = 1
    /\ plCall' = "legacy"
    /\ plTotal' = plSizes[1] + LEGACY_HEADER_SIZE
    /\ plDims' = calculateCanvasSizeLegacy(plSizes[1])
    /\ UNCHANGED <<plSizes, containerVars, singleVars, tabVars, previewVars, workerVars, handleVars, embedVars>>

PlannerNext == PlanForFiles \/ PlanSingle \/ PlanLegacy

SpecPlanner == PlannerInit /\ [][PlannerNext]_vars

(***************************************************************************)
(* Container specification: inputs                                         *)
(***************************************************************************)
\* 'a.txt', 'b.bin', 'text/plain'
STR_A_TXT == <<97, 46, 116, 120, 116>>
STR_B_BIN == <<98, 46, 98, 105, 110>>
STR_TEXT_PLAIN == <<116, 101, 120, 116, 47, 112, 108, 97, 105, 110>>

\* an ASCII name of n letters
AsciiName(n) == [i \in 1..n |-> 97 + (i % 26)]

\* a name longer than the stored maximum, and a name whose last character
\* (U+00E9, two bytes) straddles the stored maximum
LongName == AsciiName(MAX_NAME_BYTES + NameExcess)
SplitName == AsciiName(MAX_NAME_BYTES - 1) \o <<233>>

FileA == [name |-> STR_A_TXT, type |-> STR_TEXT_PLAIN, data |-> <<1, 2, 3>>]
FileB == [name |-> STR_B_BIN, type |-> DEFAULT_MIME, data |-> <<>>]

FileChoices ==
    {FileA, FileB,
     [name |-> LongName, type |-> STR_TEXT_PLAIN, data |-> <<200, 0, 255>>],
     [name |-> SplitName, type |-> <<>>, data |-> <<7>>],
     [name |-> AsciiName(MAX_NAME_BYTES), type |-> STR_TEXT_PLAIN, data |-> <<>>],
     [name |-> <<>>, type |-> <<>>, data |-> <<4, 5>>]}

FileLists == UNION {[1..k -> FileChoices] : k \in 0..MaxFiles}

\* An entry header as found in a loaded image: name length and name, no mime
\* type, payload size and the byte at offset 127 where the data offset starts
RawHeader(h) ==
    Patch(Patch(Patch(Zeros(FILE_HEADER_SIZE), <<h.nameLen>>, 0),
                <<h.size>>, 123),
          <<h.off>>, 127)

RECURSIVE Concat(_)
Concat(parts) == IF parts = <<>> THEN <<>> ELSE Head(parts) \o Concat(Tail(parts))

RawImage(magic, version, count, hdrs, tail) ==
    magic \o <<version, count>> \o Zeros(HEADER_SIZE - 6)
          \o Concat([i \in 1..Len(hdrs) |-> RawHeader(hdrs[i])]) \o tail

RawHeaderChoices ==
    {[nameLen |-> 0, size |-> 2, off |-> 0],
     [nameLen |-> 0, size |-> 2, off |-> 2],
     [nameLen |-> 0, size |-> 9, off |-> 0],
     [nameLen |-> 1, size |-> 1, off |-> 0]}

RawTails == {Zeros(4), <<0, 0, 0, 7>>, <<5, 0, 0, 0>>}

BadMagics == {MAGIC} \cup {[MAGIC EXCEPT ![k] = 0] : k \in 1..4}

\* images with a damaged or valid main header in front of one good entry
RawFormatImages ==
    {RawImage(m, v, c, <<[nameLen |-> 0, size |-> 2, off |-> 0]>>, Zeros(4)) :
        m \in BadMagics, v \in 0..2, c \in 0..1}

\* images declaring 1..MaxRawEntries entries, all headers present
RawEntryImages ==
    UNION {{RawImage(MAGIC, FORMAT_VERSION, k, hs, t) :
               hs \in [1..k -> RawHeaderChoices], t \in RawTails} :
           k \in 1..MaxRawEntries}

\* one good image cut off after n bytes
TruncLens == {0, 1, 3, 4, 5, 6, 63, 64, 100, 191, 192, 193, 194, 195}
RawTruncatedImages ==
    {SubSeq(RawImage(MAGIC, FORMAT_VERSION, 1,
                     <<[nameLen |-> 0, size |-> 2, off |-> 0]>>, Zeros(4)), 1, n) :
        n \in TruncLens}

\* images that end before all the entry headers they declare: one header
\* present, 2..MaxRawEntries declared
RawMissingHeaderImages ==
    {RawImage(MAGIC, FORMAT_VERSION, k, <<h>>, t) :
        k \in 2..MaxRawEntries, h \in RawHeaderChoices, t \in RawTails}

RawImages ==
    RawFormatImages \cup RawEntryImages \cup RawTruncatedImages
        \cup RawMissingHeaderImages

(***************************************************************************)
(* Container specification                                                 *)
(***************************************************************************)
ContainerInit ==
    /\ \/ cSrc = "files" /\ cFiles \in FileLists /\ cBuffer = <<>>
       \/ cSrc = "image" /\ cFiles = <<>> /\ cBuffer \in RawImages
    /\ ContainerStart
    /\ PlannerIdle
    /\ SingleIdle
    /\ TabIdle
    /\ PreviewIdle
    /\ OthersIdle

\* processChunk(start) of encodeBufferToCanvas on imageData.data = data: fill
\* the chunk, then schedule the next frame or commit the grid and resolve
BufferChunk(data, buffer, start, width, height, progress) ==
    LET filled == EncodeBufferChunkData(data, buffer, start)
    IN  /\ cImageData' = filled
        /\ cEncNext' = start + CHUNK_SIZE
        /\ cProgress' = Append(progress, BufferProgress(start, Len(buffer)))
        /\ cCommits' = Commits(MoreBufferChunks(start, Len(buffer)), cCommits)
        /\ IF MoreBufferChunks(start, Len(buffer))
           THEN /\ cPc' = "mapping"
                /\ cCanvas' = [width |-> width, height |-> height,
                               data |-> Zeros(4 * width * height)]
           ELSE /\ cPc' = "encoded"
                /\ cCanvas' = [width |-> width, height |-> height,
                               data |-> Premultiplied(filled)]

\* encodeFilesToCanvas(canvas, files): build the combined buffer, then
\* encodeBufferToCanvas: size the canvas and process the first chunk. An
\* exception while the buffer is built rejects the promise.
encodeFilesToCanvas ==
    /\ cSrc = "files"
    /\ cPc = "idle"
    /\ LET r == BuildContainer(cFiles)
           dims == calculateCanvasSize(Len(r.buffer))
       IN  /\ cErr' = r.err
           /\ cBuffer' = r.buffer
           /\ IF r.err # "none"
              THEN /\ cPc' = "encodeFailed"
                   /\ UNCHANGED <<cImageData, cEncNext, cCanvas, cProgress, cCommits>>
              ELSE BufferChunk(Zeros(4 * dims.width * dims.height), r.buffer, 0,
                               dims.width, dims.height, CopyProgress(cFiles))
    /\ UNCHANGED <<cSrc, cFiles, cOut, plannerVars, singleVars, tabVars, previewVars, workerVars, handleVars, embedVars>>

\* requestAnimationFrame(() => processChunk(end)) of encodeBufferToCanvas
encodeBufferFrame ==
    /\ cPc = "mapping"
    /\ BufferChunk(cImageData, cBuffer, cEncNext, cCanvas.width, cCanvas.height,
                   cProgress)
    /\ UNCHANGED <<cSrc, cFiles, cBuffer, cErr, cOut, plannerVars, singleVars, tabVars, previewVars, workerVars, handleVars, embedVars>>

\* extractFilesFromCanvas(canvas): parse the buffer recovered from the image
extractFilesFromCanvas ==
    /\ \/ cPc = "encoded"
       \/ cPc = "idle" /\ cSrc = "image"
    /\ LET r == ParseContainer(cBuffer, FALSE)
       IN  /\ cPc' = IF r.err = "none" THEN "extracted" ELSE "extractFailed"
           /\ cErr' = r.err
           /\ cOut' = r.files
           /\ cProgress' = r.progress
    /\ UNCHANGED <<cSrc, cFiles, cBuffer, cImageData, cEncNext, cCanvas, cCommits,
                   plannerVars, singleVars, tabVars, previewVars, workerVars, handleVars, embedVars>>

ContainerNext == encodeFilesToCanvas \/ encodeBufferFrame \/ extractFilesFromCanvas

SpecContainer == ContainerInit /\ [][ContainerNext]_vars

(***************************************************************************)
(* Single-file specification: inputs                                       *)
(***************************************************************************)
\* a payload of n non-zero bytes, neighbours differing
Payload(n) == [i \in 1..n |-> 1 + ((7 * i) % 255)]

SingleMetas ==
    {[name |-> STR_A_TXT, type |-> STR_TEXT_PLAIN],
     [name |-> AsciiName(MAX_SINGLE_NAME_BYTES + NameExcess), type |-> <<>>],
     [name |-> AsciiName(MAX_SINGLE_NAME_BYTES - 1) \o <<233>>, type |-> <<97, 47, 98>>]}

SingleFiles ==
    {[name |-> m.name, type |-> m.type, data |-> Payload(n)] :
        m \in SingleMetas, n \in 0..MaxPayload}

\* the RGBA bitmap of a width x height image whose R, G, B channels carry
\* the bytes of stream, in order (0 where stream has ended), alpha opaque
ImageOf(width, height, stream) ==
    [width |-> width, height |-> height,
     data |-> [j \in 1..(4 * width * height) |->
                  LET i == 3 * ((j - 1) \div 4) + ((j - 1) % 4)
                  IN  IF (j - 1) % 4 = 3 THEN 255
                      ELSE IF i < Len(stream) THEN stream[i + 1] ELSE 0]]

\* the payload lengths a loaded image declares in its header (the large ones
\* stay below 2^31, the largest integer of the model checker)
DeclaredLens == (0..MaxDeclared) \cup {65536, 2130706432}

\* loaded images: a single-file header declaring d payload bytes, followed by
\* payload bytes, on grids that hold or do not hold that many bytes
LoadedImages ==
    {ImageOf(w, h, SingleHeader(LEGACY_HEADER_SIZE, STR_A_TXT, STR_TEXT_PLAIN, d).bytes
                   \o Payload(3 * w * h)) :
        w \in {2, 4}, h \in 1..MaxGridHeight, d \in DeclaredLens}

(***************************************************************************)
(* Single-file specification                                               *)
(***************************************************************************)
SingleInit ==
    /\ \/ /\ sSrc = "file"
          /\ sVer \in {"legacy", "current"}
          /\ sFile \in SingleFiles
          /\ sCanvas = NoCanvas
       \/ /\ sSrc = "image"
          /\ sVer = "legacy"
          /\ sFile = NoFile
          /\ sCanvas \in LoadedImages
    /\ sThrowAt = 0
    /\ SingleStart
    /\ PlannerIdle
    /\ ContainerIdle
    /\ TabIdle
    /\ PreviewIdle
    /\ OthersIdle

\* the callbacks a caller may hand to a call: throwing in no report, or in
\* the report of the given number
Callbacks == 0..MaxThrowAt

\* progressCallback throws in the report that follows the reports in progress
CallbackThrows(throwAt, progress) == throwAt # 0 /\ Len(progress) + 1 = throwAt

\* processChunk(start) of the encoder on imageData.data = data: fill the
\* chunk and report progress, then request the next frame or commit the grid
\* and resolve. An exception of the callback is caught by the try block of
\* the promise executor (inExecutor) and rejects the promise; in a frame
\* callback nothing catches it, and the promise is left pending.
EncoderChunk(data, combined, start, width, height, progress, throwAt, inExecutor) ==
    LET end == Min(start + CHUNK_SIZE, Len(combined))
        filled == EncodeChunkData(data, combined, start)
        threw == CallbackThrows(throwAt, progress)
    IN  /\ sImageData' = filled
        /\ sEncNext' = end
        /\ sProgress' = Append(progress, [num |-> end, den |-> Len(combined)])
        /\ IF threw
           THEN /\ sEncPc' = IF inExecutor THEN "rejected" ELSE "stalled"
                /\ sCommits' = sCommits
                /\ sCanvas' = [width |-> width, height |-> height,
                               data |-> Zeros(4 * width * height)]
           ELSE /\ sCommits' = Commits(end < Len(combined), sCommits)
                /\ IF end < Len(combined)
                   THEN /\ sEncPc' = "chunking"
                        /\ sCanvas' = [width |-> width, height |-> height,
                                       data |-> Zeros(4 * width * height)]
                   ELSE /\ sEncPc' = "done"
                        /\ sCanvas' = [width |-> width, height |-> height,
                                       data |-> Premultiplied(filled)]

\* encodeFileToCanvas(canvas, arrayBuffer, filename, mimeType): size the
\* canvas, build header and combined buffer, process the first chunk
encodeFileToCanvas ==
    /\ sSrc = "file"
    /\ sEncPc = "idle"
    /\ \E progressCallback \in Callbacks :
       LET headerSize == IF sVer = "legacy" THEN LEGACY_HEADER_SIZE ELSE HEADER_SIZE
           dims == IF sVer = "legacy"
                   THEN calculateCanvasSizeLegacy(Len(sFile.data))
                   ELSE calculateCanvasSize(Len(sFile.data))
           combined == CombinedBuffer(headerSize, sFile).bytes
       IN  /\ sCombined' = combined
           /\ sThrowAt' = progressCallback
           /\ EncoderChunk(Zeros(4 * dims.width * dims.height), combined, 0,
                           dims.width, dims.height, <<>>, progressCallback, TRUE)
    /\ UNCHANGED <<sVer, sSrc, sFile, sDecPc, sDecNext, sDecHdr, sExtracted,
                   sBytesExtracted, sResult, sErr, plannerVars, containerVars, tabVars, previewVars, workerVars, handleVars, embedVars>>

\* requestAnimationFrame(() => processChunk(end)) of the encoder
encodeFrame ==
    /\ sEncPc = "chunking"
    /\ EncoderChunk(sImageData, sCombined, sEncNext, sCanvas.width, sCanvas.height,
                    sProgress, sThrowAt, FALSE)
    /\ UNCHANGED <<sVer, sSrc, sFile, sCombined, sDecPc, sDecNext, sDecHdr, sExtracted,
                   sBytesExtracted, sResult, sErr, sThrowAt, plannerVars, containerVars, tabVars, previewVars, workerVars, handleVars, embedVars>>

\* processChunk(startPixel) of the decoder: read the chunk and report
\* progress, then request the next frame or resolve with the extracted data.
\* An exception of the callback rejects the promise in the executor and
\* leaves it pending in a frame callback.
DecoderChunk(hdr, extracted, bytesExtracted, startPixel, progress, throwAt, inExecutor) ==
    LET totalPixelsNeeded == CeilDiv(hdr.dataLength + LEGACY_HEADER_SIZE, 3)
        endPixel == Min(startPixel + CeilDiv(CHUNK_SIZE, 3), totalPixelsNeeded)
        read == DecodeChunkData(sCanvas.data, extracted, bytesExtracted,
                                hdr.dataLength, startPixel, endPixel)
        threw == CallbackThrows(throwAt, progress)
    IN  /\ sExtracted' = read.extracted
        /\ sBytesExtracted' = read.bytesExtracted
        /\ sProgress' = Append(progress, [num |-> read.bytesExtracted,
                                          den |-> hdr.dataLength])
        /\ sDecNext' = endPixel
        /\ IF threw
           THEN /\ sDecPc' = IF inExecutor THEN "rejected" ELSE "stalled"
                /\ sErr' = "ProgressCallback"
                /\ sResult' = NoResult
           ELSE /\ sErr' = "none"
                /\ IF endPixel < totalPixelsNeeded
                   THEN /\ sDecPc' = "chunking"
                        /\ sResult' = NoResult
                   ELSE /\ sDecPc' = "resolved"
                        /\ sResult' = [filename |-> hdr.filename,
                                       mimeType |-> hdr.mimeType,
                                       data |-> read.extracted]

\* decodeFileFromCanvas(canvas): read and check the header, then process the
\* first chunk; a failed check rejects the promise (sErr keeps the cause)
decodeFileFromCanvas ==
    /\ sVer = "legacy"
    /\ sDecPc = "idle"
    /\ \/ sSrc = "file" /\ sEncPc = "done"
       \/ sSrc = "image"
    /\ \E progressCallback \in Callbacks :
       LET hdr == DecodeHeader(ReadHeader(sCanvas.data))
           check == LengthCheck(hdr.dataLength, sCanvas.width, sCanvas.height)
       IN  /\ sDecHdr' = hdr
           /\ sThrowAt' = progressCallback
           /\ IF check # "none"
              THEN /\ sDecPc' = "rejected"
                   /\ sErr' = check
                   /\ sProgress' = <<>>
                   /\ UNCHANGED <<sExtracted, sBytesExtracted, sDecNext, sResult>>
              ELSE DecoderChunk(hdr, Zeros(hdr.dataLength), 0,
                                CeilDiv(LEGACY_HEADER_SIZE, 3), <<>>, progressCallback,
                                TRUE)
    /\ UNCHANGED <<sVer, sSrc, sFile, sCombined, sImageData, sCanvas, sEncPc, sEncNext,
                   sCommits, plannerVars, containerVars, tabVars, previewVars, workerVars, handleVars, embedVars>>

\* requestAnimationFrame(() => processChunk(endPixel)) of the decoder
decodeFrame ==
    /\ sDecPc = "chunking"
    /\ DecoderChunk(sDecHdr, sExtracted, sBytesExtracted, sDecNext, sProgress, sThrowAt,
                    FALSE)
    /\ UNCHANGED <<sVer, sSrc, sFile, sCombined, sImageData, sCanvas, sEncPc, sEncNext,
                   sDecHdr, sCommits, sThrowAt, plannerVars, containerVars, tabVars, previewVars, workerVars, handleVars, embedVars>>

SingleNext == encodeFileToCanvas \/ encodeFrame \/ decodeFileFromCanvas \/ decodeFrame

SpecSingle == SingleInit /\ [][SingleNext]_vars

\* the browser runs every requested animation frame
SpecSingleFair == SpecSingle /\ WF_vars(encodeFrame) /\ WF_vars(decodeFrame)

(***************************************************************************)
(* Both encode paths: encodeFileToCanvas and encodeFilesToCanvas           *)
(***************************************************************************)
EncodersInit == SingleInit \/ ContainerInit

EncodersNext == SingleNext \/ ContainerNext

SpecEncoders == EncodersInit /\ [][EncodersNext]_vars

(***************************************************************************)
(* Extract tab: handlePngSelect                                            *)
(***************************************************************************)
\* the message of the error the parsing callback throws for outcome err
ErrorMessage(err) ==
    CASE err = "InvalidMagic" -> "Invalid file format: Missing or invalid magic number"
      [] err = "UnsupportedVersion" -> "Unsupported version"
      [] err = "NoFiles" -> "No files found in the image"
      [] err = "NoValidFiles" -> "No valid files found in the image"
      [] err = "Cancelled" -> "Operation cancelled"
      [] OTHER -> "Offset is outside the bounds of the DataView"

\* new Error(`Failed to extract files: ${error.message}`): the message is kept
\* as its two parts
WrappedError(err) ==
    [name |-> "Error", message |-> <<"Failed to extract files: ", ErrorMessage(err)>>]

\* new AppError(message); its constructor calls showError(message)
AppError(message) == [name |-> "AppError", message |-> <<message>>]

\* the texts of the model that contain 'out of bounds'
OutOfBoundsTexts == {}

\* the catch block of handlePngSelect for error, after the messages in shown:
\* the branch taken and the messages shown
CatchBlock(error, shown) ==
    IF error.name = "AppError"
    THEN [outcome |-> "failed", shown |-> Append(shown, error.message[1])]
    ELSE IF error.message = <<"Operation cancelled">>
    THEN [outcome |-> "cancelled", shown |-> shown]
    ELSE IF error.name = "SecurityError"
    THEN [outcome |-> "failed",
          shown |-> Append(shown, "Security error: The operation is not allowed.")]
    ELSE IF error.name = "QuotaExceededError"
    THEN [outcome |-> "failed",
          shown |-> Append(shown,
                       "Error: Not enough storage space to complete the operation.")]
    ELSE IF \E k \in 1..Len(error.message) : error.message[k] \in OutOfBoundsTexts
    THEN [outcome |-> "failed",
          shown |-> Append(shown,
             "Error: The image appears to be corrupted or not a valid embedded file.")]
    ELSE [outcome |-> "failed",
          shown |-> Append(shown,
             "An error occurred while extracting files. Please try again.")]

\* handlePngSelect ends in its catch block with error
TabCaught(error, shown) ==
    LET c == CatchBlock(error, shown)
    IN  /\ tabPc' = "done"
        /\ modalShown' = FALSE
        /\ tabOutcome' = c.outcome
        /\ shownErrors' = c.shown
        /\ extractedFiles' = IF c.outcome = "cancelled" THEN extractedFiles ELSE <<>>

TabInputs ==
    {[isPng |-> TRUE, buffer |-> b] : b \in RawImages}
        \cup {[isPng |-> FALSE, buffer |-> <<>>]}

TabInit ==
    /\ \E sel \in TabInputs : selectedIsPng = sel.isPng /\ selectedBuffer = sel.buffer
    /\ TabStart
    /\ PlannerIdle
    /\ ContainerIdle
    /\ SingleIdle
    /\ PreviewIdle
    /\ OthersIdle

\* handlePngSelect(event) up to the await of the image load
handlePngSelect ==
    /\ tabPc = "idle"
    /\ IF ~selectedIsPng
       THEN /\ TabCaught(AppError("Please select a valid PNG file."),
                         Append(shownErrors, "Please select a valid PNG file."))
            /\ UNCHANGED <<cancelToken, callbackRaised>>
       ELSE /\ tabPc' = "loading"
            /\ modalShown' = TRUE
            /\ UNCHANGED <<cancelToken, callbackRaised, tabOutcome, shownErrors,
                           extractedFiles>>
    /\ UNCHANGED <<selectedIsPng, selectedBuffer, plannerVars, containerVars, singleVars,
                   previewVars, workerVars, handleVars, embedVars>>

\* cancelButton.onclick, while the modal shows the button
cancelClick ==
    /\ modalShown
    /\ cancelToken' = TRUE
    /\ modalShown' = FALSE
    /\ shownErrors' = Append(shownErrors, "Operation cancelled by user")
    /\ UNCHANGED <<selectedIsPng, selectedBuffer, tabPc, callbackRaised, tabOutcome,
                   extractedFiles, plannerVars, containerVars, singleVars,
                   previewVars, workerVars, handleVars, embedVars>>

\* img.onerror: the load promise is rejected with an AppError
imageError ==
    /\ tabPc = "loading"
    /\ TabCaught(AppError("Failed to load image."),
                 Append(shownErrors, "Failed to load image."))
    /\ UNCHANGED <<selectedIsPng, selectedBuffer, cancelToken, callbackRaised,
                   plannerVars, containerVars, singleVars,
                   previewVars, workerVars, handleVars, embedVars>>

\* img.onload: the image is drawn and extractFilesFromCanvas is called; it
\* waits for the buffer of the image
imageLoaded ==
    /\ tabPc = "loading"
    /\ tabPc' = "extracting"
    /\ UNCHANGED <<selectedIsPng, selectedBuffer, cancelToken, modalShown,
                   callbackRaised, tabOutcome, shownErrors, extractedFiles,
                   plannerVars, containerVars, singleVars,
                   previewVars, workerVars, handleVars, embedVars>>

\* the buffer arrives: the parsing callback of extractFilesFromCanvas runs with
\* the progress callback of handlePngSelect, then handlePngSelect continues
\* after its await or in its catch block
filesExtracted ==
    /\ tabPc = "extracting"
    /\ LET r == ParseContainer(selectedBuffer, cancelToken)
       IN  /\ callbackRaised' = (r.err = "Cancelled")
           /\ IF r.err = "none"
              THEN /\ tabPc' = "done"
                   /\ modalShown' = FALSE
                   /\ tabOutcome' = "success"
                   /\ extractedFiles' = r.files
                   /\ UNCHANGED shownErrors
              ELSE TabCaught(WrappedError(r.err), shownErrors)
    /\ UNCHANGED <<selectedIsPng, selectedBuffer, cancelToken,
                   plannerVars, containerVars, singleVars,
                   previewVars, workerVars, handleVars, embedVars>>

TabNext == handlePngSelect \/ cancelClick \/ imageError \/ imageLoaded \/ filesExtracted

SpecTab == TabInit /\ [][TabNext]_vars

(***************************************************************************)
(* Embed tab: handleFileSelect calls sharing previewCanvas                 *)
(***************************************************************************)
\* DEFAULT_MAX_SIZE_MB megabytes, the largest file handleFileSelect accepts
MAX_SIZE_BYTES == 10 * 1024 * 1024

\* ctx.putImageData(imageData, 0, 0) on canvas: the pixels of imageData that
\* fall inside the canvas replace the canvas pixels, the others are dropped
putImageData(canvas, img) ==
    [canvas EXCEPT !.data =
        [j \in 1..(4 * canvas.width * canvas.height) |->
            LET p == (j - 1) \div 4
                x == p % canvas.width
                y == p \div canvas.width
            IN  IF x < img.width /\ y < img.height
                THEN Premultiplied(img.data)[(4 * ((y * img.width) + x)) + ((j - 1) % 4) + 1]
                ELSE canvas.data[j]]]

\* imageData.data after processChunk(start) and all the chunks that follow it
RECURSIVE EncodeFrom(_, _, _)
EncodeFrom(data, combined, start) ==
    LET filled == EncodeChunkData(data, combined, start)
        end == Min(start + CHUNK_SIZE, Len(combined))
    IN  IF end < Len(combined) THEN EncodeFrom(filled, combined, end) ELSE filled

\* the canvas after encodeFileToCanvas(canvas, file...) run on its own
EncodedAlone(file) ==
    LET dims == calculateCanvasSize(Len(file.data))
        combined == CombinedBuffer(HEADER_SIZE, file).bytes
    IN  [width |-> dims.width, height |-> dims.height,
         data |-> Premultiplied(EncodeFrom(Zeros(4 * dims.width * dims.height),
                                           combined, 0))]

PreviewSizes == {0, 1, 3, MaxPreviewPayload}
PreviewFiles ==
    {[name |-> STR_A_TXT, type |-> STR_TEXT_PLAIN, data |-> Payload(n)] : n \in PreviewSizes}

PreviewInit ==
    /\ selectedFiles \in [1..2 -> PreviewFiles]
    /\ PreviewStart
    /\ PlannerIdle
    /\ ContainerIdle
    /\ SingleIdle
    /\ TabIdle
    /\ OthersIdle

\* processChunk(start) of call c of encodeFileToCanvas on previewCanvas, canvas
\* being the canvas the chunk finds: fill the chunk of the call's own
\* imageData, then wait for the next frame or commit and resolve
PreviewChunk(c, call, start, canvas, queue) ==
    LET end == Min(start + CHUNK_SIZE, Len(call.combined))
        filled == [call EXCEPT !.data = EncodeChunkData(call.data, call.combined, start),
                               !.next = end]
    IN  IF end < Len(call.combined)
        THEN /\ encCalls' = [encCalls EXCEPT ![c] = [filled EXCEPT !.pc = "chunking"]]
             /\ frameQueue' = Append(queue, c)
             /\ previewCanvas' = canvas
        ELSE /\ encCalls' = [encCalls EXCEPT ![c] = [filled EXCEPT !.pc = "done"]]
             /\ frameQueue' = queue
             /\ previewCanvas' = putImageData(canvas, filled)

\* handleFileSelect(event) of call c up to await readFileAsArrayBuffer(file)
handleFileSelect(c) ==
    /\ encCalls[c].pc = "idle"
    /\ encCalls' = [encCalls EXCEPT ![c].pc =
                       IF Len(selectedFiles[c].data) > MAX_SIZE_BYTES
                       THEN "failed" ELSE "reading"]
    /\ UNCHANGED <<selectedFiles, frameQueue, previewCanvas,
                   plannerVars, containerVars, singleVars, tabVars, workerVars, handleVars, embedVars>>

\* the file of call c has been read: encodeFileToCanvas(previewCanvas, ...)
\* sizes the canvas, which clears it, builds the combined buffer and
\* processes the first chunk
fileRead(c) ==
    /\ encCalls[c].pc = "reading"
    /\ LET file == selectedFiles[c]
           dims == calculateCanvasSize(Len(file.data))
           blank == Zeros(4 * dims.width * dims.height)
           call == [pc |-> "reading", combined |-> CombinedBuffer(HEADER_SIZE, file).bytes,
                    width |-> dims.width, height |-> dims.height,
                    data |-> blank, next |-> 0]
       IN  PreviewChunk(c, call, 0,
                        [width |-> dims.width, height |-> dims.height, data |-> blank],
                        frameQueue)
    /\ UNCHANGED <<selectedFiles, plannerVars, containerVars, singleVars, tabVars, workerVars, handleVars, embedVars>>

\* the animation frame callback registered first runs: processChunk(end) of
\* the call at the head of the queue
animationFrame ==
    /\ frameQueue # <<>>
    /\ LET c == Head(frameQueue)
       IN  PreviewChunk(c, encCalls[c], encCalls[c].next, previewCanvas, Tail(frameQueue))
    /\ UNCHANGED <<selectedFiles, plannerVars, containerVars, singleVars, tabVars, workerVars, handleVars, embedVars>>

PreviewNext == (\E c \in 1..2 : handleFileSelect(c) \/ fileRead(c)) \/ animationFrame

SpecPreview == PreviewInit /\ [][PreviewNext]_vars

(***************************************************************************)
(* Workers (worker.js): ENCODE_WORKER_CODE and DECODE_WORKER_CODE          *)
(***************************************************************************)
\* Math.floor(i / 3) * 4 + (i % 3): the element of the RGBA array that holds
\* byte i
PixelIndex(i) == ((i \div 3) * 4) + (i % 3)

\* pixels after the white fill
WhiteFill(width, height) == [j \in 1..(4 * width * height) |-> 255]

\* pixels after the loop of processChunk(start, end) of the encode worker
EncodeWorkerChunk(pixels, fileData, start, end) ==
    [j \in 1..Len(pixels) |->
        LET i == (3 * ((j - 1) \div 4)) + ((j - 1) % 4)
        IN  IF (j - 1) % 4 < 3 /\ i >= start /\ i < end
            THEN fileData[i + 1]
            ELSE pixels[j]]

\* the iterations of processChunk(start, end) of the decode worker that copy
\* a byte
Copied(data, headerSize, dataLength, start, end) ==
    {i \in start..(end - 1) :
        i < dataLength /\ PixelIndex(i + headerSize) < Len(data)}

\* DecodeWorkerChunk reading byte i at the index of byte i, the header not
\* skipped
DecodeWorkerChunk_noHeader(data, result, bytesProcessed, headerSize, dataLength, start, end) ==
    LET copied == Copied(data, headerSize, dataLength, start, end)
    IN  [result |-> [k \in 1..Len(result) |->
                        IF (k - 1) \in copied
                        THEN data[PixelIndex(k - 1) + 1]
                        ELSE result[k]],
         bytesProcessed |-> bytesProcessed + Cardinality(copied)]

\* [result, bytesProcessed] after the loop of processChunk(start, end) of the
\* decode worker
DecodeWorkerChunk(data, result, bytesProcessed, headerSize, dataLength, start, end) ==
    LET copied == Copied(data, headerSize, dataLength, start, end)
    IN  [result |-> [k \in 1..Len(result) |->
                        IF (k - 1) \in copied
                        THEN data[PixelIndex(k - 1 + headerSize) + 1]
                        ELSE result[k]],
         bytesProcessed |-> bytesProcessed + Cardinality(copied)]

\* the buffers, grids and chunk sizes of the messages posted to the workers
WorkerBuffers == {Payload(n) : n \in 0..MaxWorkerBytes}
WorkerGrids == {[width |-> w, height |-> h] : w \in 1..2, h \in 1..MaxWorkerHeight}
WorkerChunks == 1..MaxWorkerChunk

\* the files whose combined buffer, as encodeFileToCanvas builds it, is posted
\* to the encode worker with the dimensions encodeFileToCanvas plans
WorkerFiles ==
    {[name |-> STR_A_TXT, type |-> STR_TEXT_PLAIN, data |-> Payload(n)] : n \in 0..1}

CanvasRequest(file) ==
    LET dims == calculateCanvasSize(Len(file.data))
    IN  [fileData |-> CombinedBuffer(HEADER_SIZE, file).bytes,
         width |-> dims.width, height |-> dims.height, chunkSize |-> CHUNK_SIZE]

EncodeRequests ==
    {[fileData |-> b, width |-> g.width, height |-> g.height, chunkSize |-> c] :
        b \in WorkerBuffers, g \in WorkerGrids, c \in WorkerChunks}
    \cup {CanvasRequest(f) : f \in WorkerFiles}

DecodeRequests ==
    {[headerSize |-> h, dataLength |-> n, chunkSize |-> c] :
        h \in (0..2) \cup {HEADER_SIZE}, n \in 0..MaxWorkerBytes, c \in WorkerChunks}

WorkerInit ==
    /\ ewRequest \in EncodeRequests
    /\ WorkerStart
    /\ PlannerIdle
    /\ ContainerIdle
    /\ SingleIdle
    /\ TabIdle
    /\ PreviewIdle
    /\ HandleIdle
    /\ EmbedIdle

\* processChunk(start, end) of the encode worker on pixels
EncodeWorkerStep(pixels, start, end) ==
    LET fileData == ewRequest.fileData
        chunkSize == ewRequest.chunkSize
    IN  /\ ewPixels' = EncodeWorkerChunk(pixels, fileData, start, end)
        /\ ewProgress' = IF end % chunkSize = 0 \/ end >= Len(fileData)
                         THEN [num |-> end, den |-> Len(fileData)]
                         ELSE ewProgress
        /\ IF end < Len(fileData)
           THEN /\ ewTimer' = [start |-> end,
                               end |-> Min(end + chunkSize, Len(fileData))]
                /\ ewPc' = "timer"
                /\ ewCompletes' = ewCompletes
           ELSE /\ ewTimer' = NoTimer
                /\ ewPc' = "complete"
                /\ ewCompletes' = ewCompletes + 1

\* self.onmessage of the encode worker
encodeMessage ==
    /\ ewPc = "idle"
    /\ EncodeWorkerStep(WhiteFill(ewRequest.width, ewRequest.height), 0,
                        Min(ewRequest.chunkSize, Len(ewRequest.fileData)))
    /\ UNCHANGED <<ewRequest, dwRequest, dwResult, dwBytesProcessed, dwTimer, dwPc,
                   dwProgress, dwCompletes, plannerVars, containerVars, singleVars,
                   tabVars, previewVars, handleVars, embedVars>>

\* the timer of the encode worker: processChunk(end, ...)
encodeTimer ==
    /\ ewPc = "timer"
    /\ EncodeWorkerStep(ewPixels, ewTimer.start, ewTimer.end)
    /\ UNCHANGED <<ewRequest, dwRequest, dwResult, dwBytesProcessed, dwTimer, dwPc,
                   dwProgress, dwCompletes, plannerVars, containerVars, singleVars,
                   tabVars, previewVars, handleVars, embedVars>>

\* processChunk(start, end) of the decode worker on the pixels the encode
\* worker posted
DecodeWorkerStep(request, result, bytesProcessed, start, end) ==
    LET dataLength == request.dataLength
        chunkSize == request.chunkSize
        r == DecodeWorkerChunk(ewPixels, result, bytesProcessed, request.headerSize,
                               dataLength, start, end)
    IN  /\ dwResult' = r.result
        /\ dwBytesProcessed' = r.bytesProcessed
        /\ dwProgress' = IF r.bytesProcessed % chunkSize = 0
                            \/ r.bytesProcessed >= dataLength
                         THEN [num |-> r.bytesProcessed, den |-> dataLength]
                         ELSE dwProgress
        /\ IF r.bytesProcessed < dataLength
           THEN /\ dwTimer' = [start |-> end, end |-> Min(end + chunkSize, dataLength)]
                /\ dwPc' = "timer"
                /\ dwCompletes' = dwCompletes
           ELSE /\ dwTimer' = NoTimer
                /\ dwPc' = "complete"
                /\ dwCompletes' = dwCompletes + 1

\* self.onmessage of the decode worker
decodeMessage ==
    /\ ewPc = "complete"
    /\ dwPc = "idle"
    /\ \E request \in DecodeRequests :
          /\ dwRequest' = request
          /\ DecodeWorkerStep(request, Zeros(request.dataLength), 0, 0,
                              Min(request.chunkSize, request.dataLength))
    /\ UNCHANGED <<ewRequest, ewPixels, ewTimer, ewPc, ewProgress, ewCompletes,
                   plannerVars, containerVars, singleVars, tabVars, previewVars,
                   handleVars, embedVars>>

\* the timer of the decode worker: processChunk(end, ...)
decodeTimer ==
    /\ dwPc = "timer"
    /\ DecodeWorkerStep(dwRequest, dwResult, dwBytesProcessed, dwTimer.start,
                        dwTimer.end)
    /\ UNCHANGED <<ewRequest, ewPixels, ewTimer, ewPc, ewProgress, ewCompletes,
                   dwRequest, plannerVars, containerVars, singleVars, tabVars,
                   previewVars, handleVars, embedVars>>

WorkerNext == encodeMessage \/ encodeTimer \/ decodeMessage \/ decodeTimer

SpecWorker == WorkerInit /\ [][WorkerNext]_vars

\* a worker runs every timer it has set
SpecWorkerFair == SpecWorker /\ WF_vars(encodeTimer) /\ WF_vars(decodeTimer)

(***************************************************************************)
(* Properties of the container codec                                       *)
(***************************************************************************)
\* a call of the container specification has run to its end
ContainerDone == cPc \in {"encodeFailed", "extracted", "extractFailed"}

\* a string as it is expected back: its first maxBytes UTF-8 bytes, decoded
Truncated(str, maxBytes) ==
    LET b == Utf8Encode(str)
    IN  Utf8Decode(Slice(b, 0, Min(Len(b), maxBytes)))

ExpectedEntry(file) ==
    [name |-> Truncated(file.name, MAX_NAME_BYTES),
     type |-> Truncated(file.type, MAX_MIME_BYTES),
     data |-> file.data]

\* C1: container round-trip. Parsing the buffer built from a list of 1..255
\* entries returns as many entries in the same order, each payload equal
\* byte for byte and each name / mime equal up to the truncation limits.
C1_RoundTrip ==
    (cSrc = "files" /\ Len(cFiles) \in 1..MAX_FILES /\ ContainerDone)
        => /\ cPc = "extracted"
           /\ cOut = [i \in 1..Len(cFiles) |-> ExpectedEntry(cFiles[i])]

\* C2: serialize never fails. Whatever the list of entries, building the
\* container (main header, entry headers, payload copy) raises no error.
C2_SerializeNeverFails ==
    (cSrc = "files" /\ cPc # "idle") => (cPc # "encodeFailed" /\ cBuffer # <<>>)

\* The entry declared at position j of an image, read at its own header, and
\* whether its header and its payload lie inside the buffer.
DeclaredAt(buf, j) == EntryAt(buf, getUint8(buf, 5), HEADER_SIZE + j * FILE_HEADER_SIZE)
DeclaredCount(buf) == getUint8(buf, 5)
HeadersPresent(buf) ==
    InView(buf, HEADER_SIZE + (DeclaredCount(buf) - 1) * FILE_HEADER_SIZE + 127, 4)
DeclaredValid(buf, j) == DeclaredAt(buf, j).dataEnd <= Len(buf)

RECURSIVE ValidDeclared(_, _)
ValidDeclared(buf, j) ==
    IF j >= DeclaredCount(buf) THEN <<>>
    ELSE LET e == DeclaredAt(buf, j)
             rest == ValidDeclared(buf, j + 1)
         IN  IF DeclaredValid(buf, j)
             THEN <<[name |-> e.name, type |-> e.type,
                     data |-> Slice(buf, e.dataStart, e.dataEnd)]>> \o rest
             ELSE rest

WellFormedHeader(buf) ==
    /\ Len(buf) >= HEADER_SIZE
    /\ SubSeq(buf, 1, 4) = MAGIC
    /\ buf[5] = FORMAT_VERSION
    /\ buf[6] > 0

\* C5: per-entry bounds violations are recoverable. Of the declared entries
\* exactly those whose payload bounds exceed the buffer are skipped; every
\* other one, declared before or after a skipped one, is returned, and the
\* call fails with the no-valid-entries error only when none is valid.
C5_SkipOnlyOutOfBounds ==
    (cSrc = "image" /\ ContainerDone /\ WellFormedHeader(cBuffer) /\ HeadersPresent(cBuffer))
        => /\ cOut = ValidDeclared(cBuffer, 0)
           /\ (cPc = "extractFailed") <=> (ValidDeclared(cBuffer, 0) = <<>>)
           /\ (cPc = "extractFailed") => (cErr = "NoValidFiles")

\* C6: format rejection. A wrong magic or a version other than 1 fails with
\* a format error, an entry count of 0 with the distinct empty-container
\* error; magic is tested before version, version before entry count, and
\* no entry is returned in any of the three cases.
C6_FormatRejection ==
    (cPc \in {"extracted", "extractFailed"}) =>
        LET magicOk == Len(cBuffer) >= 4 /\ SubSeq(cBuffer, 1, 4) = MAGIC
            rejected(e) == cPc = "extractFailed" /\ cErr = e /\ cOut = <<>>
        IN  /\ (Len(cBuffer) >= 4 /\ ~magicOk) => rejected("InvalidMagic")
            /\ (magicOk /\ Len(cBuffer) >= 5 /\ cBuffer[5] # 1)
                   => rejected("UnsupportedVersion")
            /\ (magicOk /\ Len(cBuffer) >= 6 /\ cBuffer[5] = 1 /\ cBuffer[6] = 0)
                   => rejected("NoFiles")

\* an image with good magic, a bad version and an entry count of 0 is
\* rejected for its version
C6_Witness ==
    /\ cPc = "extractFailed"
    /\ cErr = "UnsupportedVersion"
    /\ SubSeq(cBuffer, 1, 4) = MAGIC
    /\ cBuffer[6] = 0

StreamByte(data, i) == data[4 * (i \div 3) + (i % 3) + 1]

\* C3: write mapping across chunk boundaries. Once encodeFileToCanvas has
\* completed, channel (i mod 3) of pixel floor(i/3) holds byte i of the
\* combined buffer, for every index i, whatever the number of chunks.
C3_WriteMapping ==
    (sSrc = "file" /\ sEncPc = "done")
        => \A i \in 0..(Len(sCombined) - 1) :
               StreamByte(sCanvas.data, i) = sCombined[i + 1]

\* C4: pixel-mapping round-trip. decodeFileFromCanvas on the grid written by
\* encodeFileToCanvas returns a payload of the same length with the same
\* byte at every index, for every payload length from 0 on (the progress
\* callback of the decode call not throwing).
C4_PixelRoundTrip ==
    (sSrc = "file" /\ sThrowAt = 0 /\ sDecPc \in {"resolved", "rejected"})
        => (sDecPc = "resolved" /\ sResult.data = sFile.data)

\* the payload length declared by the header a bitmap of at least 32 stream
\* bytes carries (little endian, stream bytes 28..31)
DeclaredLength(data) ==
    StreamByte(data, 28) + 256 * StreamByte(data, 29)
        + 65536 * StreamByte(data, 30) + 16777216 * StreamByte(data, 31)

\* the grid has fewer usable bytes than the header plus the declared payload
InsufficientGrid(canvas) ==
    LET usable == canvas.width * canvas.height * 3
    IN  \/ usable < LEGACY_HEADER_SIZE
        \/ usable < LEGACY_HEADER_SIZE + DeclaredLength(canvas.data)

\* C7: insufficient data is an error. When the grid offers fewer usable bytes
\* than header size plus declared payload length, decodeFileFromCanvas is
\* rejected and returns no data; it never resolves with an output shorter
\* than the declared length.
C7_InsufficientData ==
    (sDecPc # "idle")
        => /\ InsufficientGrid(sCanvas) => (sDecPc = "rejected" /\ sResult = NoResult)
           /\ (sDecPc = "resolved")
                  => Len(sResult.data) = DeclaredLength(sCanvas.data)

\* a loaded image that holds the header but not the payload it declares is
\* rejected
C7_Witness ==
    /\ sSrc = "image"
    /\ sDecPc = "rejected"
    /\ sCanvas.width * sCanvas.height * 3 >= LEGACY_HEADER_SIZE
    /\ DeclaredLength(sCanvas.data) > 0
    /\ InsufficientGrid(sCanvas)

(***************************************************************************)
(* Properties of the dimension planner                                     *)
(***************************************************************************)
\* C10: planner capacity. The planned canvas holds the n bytes it is planned
\* for, width * height * 3 >= n, its width is even, and width and height
\* are the ones derived from pixelsNeeded = ceil(n/3) and side =
\* ceil(sqrt(pixelsNeeded)).
C10_PlannerCapacity ==
    (plCall # "none") =>
        LET n == plTotal
            w == plDims.width
            h == plDims.height
            p == CHOOSE q \in 0..n : 3 * q >= n /\ 3 * (q - 1) < n
        IN  /\ w * h * 3 >= n
            /\ w % 2 = 0
            /\ \E side \in {w - 1, w} :
                   /\ side * side >= p
                   /\ (side - 1) * (side - 1) < p
                   /\ (side = w) <=> (side % 2 = 0)
            /\ h * w >= p
            /\ (h - 1) * w < p

\* two files planned, the side being odd so that the width is side + 1
C10_Witness ==
    /\ plCall = "forFiles"
    /\ Len(plSizes) = 2
    /\ plDims.width * plDims.height * 3 >= plTotal
    /\ (plDims.width - 1) * (plDims.width - 1) >= CeilDiv(plTotal, 3)

(***************************************************************************)
(* Properties of the progress reports                                      *)
(***************************************************************************)
\* fraction a is at most fraction b (denominators are positive)
FracLeq(a, b) == a.num * b.den <= b.num * a.den

\* the fractions of a sequence of reports never decrease
NonDecreasing(progress) ==
    \A k \in 1..(Len(progress) - 1) : FracLeq(progress[k], progress[k + 1])

EndsAtOne(progress) ==
    Len(progress) >= 1 /\ progress[Len(progress)].num = progress[Len(progress)].den

\* C12: in every decode that completes successfully (decodeFileFromCanvas, and
\* the entry loop of extractFilesFromCanvas) the last value passed to the
\* progress callback before the promise resolves is exactly 1.0.
C12_ProgressEndsAtOne ==
    /\ (cPc = "extracted") => EndsAtOne(cProgress)
    /\ (sDecPc = "resolved") => EndsAtOne(sProgress)

(***************************************************************************)
(* Properties of the extract tab                                           *)
(***************************************************************************)
\* C13: when the user cancels a running extraction and the progress callback
\* raises 'Operation cancelled', handlePngSelect ends in the cancelled
\* outcome: no extracted files are delivered, the failure path is not taken
\* and no failure message is shown.
C13_CancelIsNotFailure ==
    (tabPc = "done" /\ callbackRaised)
        => /\ tabOutcome = "cancelled"
           /\ extractedFiles = <<>>
           /\ shownErrors = <<>>

(***************************************************************************)
(* Properties of the buffer built by encodeFilesToCanvas                   *)
(***************************************************************************)
\* the number of entries retained and the payload sizes of the retained ones
Retained(files) == Min(Len(files), MAX_FILES)
PayloadSizes(files) == [i \in 1..Retained(files) |-> Len(files[i].data)]

\* the length of the data section of a buffer built from files
DataSectionLength(buf, files) ==
    Len(buf) - HEADER_SIZE - (Retained(files) * FILE_HEADER_SIZE)

\* the data offset recorded in the header of entry k (from 0) of buf
RecordedOffset(buf, k) == getUint32(buf, HEADER_SIZE + (k * FILE_HEADER_SIZE) + 127)

\* C14: offsets are cumulative and in bounds. In the buffer built from a
\* list of entries the data offset recorded for entry k is the sum of the
\* payload lengths of entries 0..k-1, and data offset + payload length of
\* every entry is at most the length of the data section.
C14_OffsetsCumulative ==
    (cSrc = "files" /\ cPc # "idle")
        => /\ cErr = "none"
           /\ \A k \in 0..(Retained(cFiles) - 1) :
                  /\ InView(cBuffer, HEADER_SIZE + (k * FILE_HEADER_SIZE) + 127, 4)
                  /\ RecordedOffset(cBuffer, k)
                         = SumSeq(SubSeq(PayloadSizes(cFiles), 1, k))
                  /\ RecordedOffset(cBuffer, k) + PayloadSizes(cFiles)[k + 1]
                         <= DataSectionLength(cBuffer, cFiles)

\* C15: output length. The buffer built from a list of entries has length
\* 64 + 128 * n + sum of the payload lengths of the n retained entries, with
\* n = min(number of entries, 255), and the entry count of its header is n.
C15_OutputLength ==
    (cSrc = "files" /\ cPc # "idle")
        => /\ cErr = "none"
           /\ Len(cBuffer) = HEADER_SIZE + (Retained(cFiles) * FILE_HEADER_SIZE)
                                 + SumSeq(PayloadSizes(cFiles))
           /\ getUint8(cBuffer, 5) = Retained(cFiles)

(***************************************************************************)
(* Properties of the committed grids                                       *)
(***************************************************************************)
\* every pixel of the canvas has alpha 255
Opaque(canvas) ==
    \A p \in 0..((canvas.width * canvas.height) - 1) : canvas.data[(4 * p) + 4] = 255

\* C16: alpha is always opaque. After an encode path has completed
\* (encodeFileToCanvas, encodeBufferToCanvas) every pixel of the width x
\* height grid, also those beyond the end of the buffer, has alpha 255.
C16_AlphaOpaque ==
    /\ (sEncPc = "done") => Opaque(sCanvas)
    /\ (cPc = "encoded") => Opaque(cCanvas)

\* C17: short buffers are a format error. Parsing a buffer shorter than the
\* 64-byte main header fails with the format error, the outcome of a wrong
\* magic or an unsupported version, whatever the buffer holds; not with the
\* empty-container or no-valid-entries outcome nor with any other error.
C17_ShortBufferIsFormatError ==
    (cSrc = "image" /\ Len(cBuffer) < HEADER_SIZE /\ cPc \in {"extracted", "extractFailed"})
        => /\ cPc = "extractFailed"
           /\ cErr \in {"InvalidMagic", "UnsupportedVersion"}

\* the 6-bit groups for which processChunk stores a pixel
WrittenGroups(byteLength) ==
    {i \in 0..((4 * byteLength) \div 3) :
        3 * i < 4 * byteLength /\ ((i * 3) \div 4) + 1 < byteLength}

\* C19: one pixel-mapping scheme. The grid written by the multi-file path
\* (encodeFilesToCanvas via encodeBufferToCanvas) is the grid of the direct
\* 3-bytes-per-pixel mapping: channel i mod 3 of pixel floor(i/3) holds
\* buffer byte i, and every pixel written lies inside the canvas planned
\* for the buffer.
C19_OneMappingScheme ==
    (cPc = "encoded")
        => /\ \A i \in 0..(Len(cBuffer) - 1) : StreamByte(cCanvas.data, i) = cBuffer[i + 1]
           /\ \A i \in WrittenGroups(Len(cBuffer)) : i < cCanvas.width * cCanvas.height

(***************************************************************************)
(* Properties of the header layouts                                        *)
(***************************************************************************)
\* the byte ranges the code writes and reads in an entry header of the
\* multi-file format, relative to the start of the header
EntryFields ==
    <<[field |-> "nameLength", off |-> 0, size |-> 2],
      [field |-> "name", off |-> 2, size |-> MAX_NAME_BYTES],
      [field |-> "mimeLength", off |-> 102, size |-> 1],
      [field |-> "mime", off |-> 103, size |-> MAX_MIME_BYTES],
      [field |-> "fileSize", off |-> 123, size |-> 4],
      [field |-> "dataOffset", off |-> 127, size |-> 4]>>

\* the byte ranges the code writes and reads in the single-file header
SingleFields ==
    <<[field |-> "filenameLength", off |-> 0, size |-> 2],
      [field |-> "filename", off |-> 2, size |-> MAX_SINGLE_NAME_BYTES],
      [field |-> "mimeLength", off |-> 22, size |-> 2],
      [field |-> "mime", off |-> 24, size |-> MAX_SINGLE_MIME_BYTES],
      [field |-> "dataLength", off |-> 28, size |-> 4]>>

\* every field lies inside a header of headerSize bytes and no two overlap
LayoutOk(fields, headerSize) ==
    /\ \A k \in 1..Len(fields) : fields[k].off + fields[k].size <= headerSize
    /\ \A j, k \in 1..Len(fields) :
           j < k => fields[j].off + fields[j].size <= fields[k].off

\* buf with every byte outside the header of entry j (from 0) set to 0
HeaderAlone(buf, j) ==
    [b \in 1..Len(buf) |->
        IF (b - 1) \in (HEADER_SIZE + (j * FILE_HEADER_SIZE))
                           ..(HEADER_SIZE + ((j + 1) * FILE_HEADER_SIZE) - 1)
           \/ b = 6
        THEN buf[b] ELSE 0]

\* C20: header fields are disjoint and inside the header. In both header
\* formats every field occupies a byte range inside the fixed-size header
\* that overlaps no other field; no field write leaves the header and no
\* field read covers bytes of another field, of the next header or of the
\* data section: what is read for an entry depends on its header alone.
C20_FieldsInsideHeader ==
    (cPc # "idle")
        => /\ LayoutOk(EntryFields, FILE_HEADER_SIZE)
           /\ LayoutOk(SingleFields, LEGACY_HEADER_SIZE)
           /\ (cSrc = "files") => (cErr # "RangeError")
           /\ (cSrc = "image" /\ WellFormedHeader(cBuffer) /\ HeadersPresent(cBuffer))
                  => \A j \in 0..(DeclaredCount(cBuffer) - 1) :
                         DeclaredAt(cBuffer, j) = DeclaredAt(HeaderAlone(cBuffer, j), j)

(***************************************************************************)
(* Properties of overlapping encode calls                                  *)
(***************************************************************************)
\* C18: concurrent encode calls do not interfere. When two encode calls
\* overlap, their chunks interleaved at the yield points, each call commits
\* the grid it would have committed alone; both targeting previewCanvas,
\* after both have finished the dimensions and the pixel content of the
\* canvas belong to one and the same call.
C18_NoInterference ==
    (\A c \in 1..2 : encCalls[c].pc = "done")
        => /\ \A c \in 1..2 :
                  Premultiplied(encCalls[c].data) = EncodedAlone(selectedFiles[c]).data
           /\ \E c \in 1..2 : previewCanvas = EncodedAlone(selectedFiles[c])

(***************************************************************************)
(* Properties of the chunk sequence of the encoders and decoders           *)
(***************************************************************************)
\* a canvas whose bitmap has been cleared and not drawn to
Blank(canvas) == canvas.data = Zeros(4 * canvas.width * canvas.height)

\* the commit of the grid with respect to the chunks processed so far
CommitAtEnd ==
    /\ sCommits <= 1
    /\ (sSrc = "file" /\ sEncPc # "idle" /\ sCommits = 0)
           => (sEncPc # "done" /\ Blank(sCanvas))
    /\ sCommits = 1
           => /\ sEncPc = "done"
              /\ sEncNext = Len(sCombined)
              /\ sCanvas.data = Premultiplied(sImageData)
    /\ (sEncPc = "done") => sCommits = 1
    /\ cCommits <= 1
    /\ (cPc = "mapping") => (cCommits = 0 /\ Blank(cCanvas))
    /\ cCommits = 1
           => /\ cPc \in {"encoded", "extracted", "extractFailed"}
              /\ 3 * cEncNext >= 4 * Len(cBuffer)
              /\ cCanvas.data = Premultiplied(cImageData)
    /\ (cPc = "encoded") => cCommits = 1

\* chunks are processed in order, and none after the commit
ChunksThenCommit ==
    /\ sEncNext' >= sEncNext
    /\ cEncNext' >= cEncNext
    /\ sCommits >= 1 => UNCHANGED <<sImageData, sEncNext, sCanvas, sCommits, sEncPc>>
    /\ cCommits >= 1 => UNCHANGED <<cImageData, cEncNext, cCanvas, cCommits>>

\* C23: commit happens once, at the end. In every encode call the grid is
\* committed to the canvas (putImageData) at most once, only after the last
\* chunk has been processed, and the promise resolves only with that commit:
\* no partially processed grid is committed, and no chunk is processed after
\* the commit.
C23_CommitOnceAtEnd == []CommitAtEnd /\ [][ChunksThenCommit]_vars

\* both encoders have committed after more than one chunk
C23_Witness ==
    /\ sEncPc = "done" /\ sCommits = 1 /\ Len(sCombined) > CHUNK_SIZE
    /\ cPc = "encoded" /\ cCommits = 1 /\ cEncNext > CHUNK_SIZE

\* the progress callback has thrown in a chunk of the encoder
EncodeChunkFailed ==
    /\ sEncPc # "idle" /\ sDecPc = "idle"
    /\ sThrowAt # 0 /\ Len(sProgress) = sThrowAt

\* the progress callback has thrown in a chunk of the decoder
DecodeChunkFailed ==
    /\ sDecPc # "idle"
    /\ sThrowAt # 0 /\ Len(sProgress) = sThrowAt

\* C25: fatal errors always reach the caller. When the processing of a chunk
\* fails because the progress callback throws, in the first chunk or in a
\* chunk run from an animation frame, the promise of encodeFileToCanvas or
\* decodeFileFromCanvas is eventually rejected and never resolved, and every
\* started call is eventually settled.
C25_ErrorsReachCaller ==
    /\ EncodeChunkFailed ~> (sEncPc = "rejected")
    /\ DecodeChunkFailed ~> (sDecPc = "rejected")
    /\ (sEncPc # "idle") ~> (sEncPc \in {"done", "rejected"})
    /\ (sDecPc # "idle") ~> (sDecPc \in {"resolved", "rejected"})
    /\ [](EncodeChunkFailed => [](sEncPc # "done"))
    /\ [](DecodeChunkFailed => [](sDecPc # "resolved"))

(***************************************************************************)
(* Properties of the reads of extractFilesFromCanvas                       *)
(***************************************************************************)
\* C21: the decoder never reads past the end of the buffer. Whatever the
\* buffer, also one that ends exactly at the end of its last entry header,
\* every header-field read and every payload slice covers only indices
\* below the buffer length: no read is attempted outside the buffer (the
\* DataView rejects such a read with a RangeError).
C21_NoReadPastEnd ==
    (cSrc = "image" /\ cPc \in {"extracted", "extractFailed"})
        => /\ cErr # "RangeError"
           /\ \A k \in 1..Len(cOut) : Len(cOut[k].data) <= Len(cBuffer)

\* the number of entry headers that lie completely inside buf
CompleteHeaders(buf) == (Len(buf) - HEADER_SIZE) \div FILE_HEADER_SIZE

\* C22: early end of headers does not fail the call. If the buffer ends
\* before entry_count entry headers have been read, the loop stops early
\* and the call resolves with the entries whose headers were completely
\* read, in declared order.
C22_EarlyEndReturnsEntries ==
    (/\ cSrc = "image"
     /\ cPc \in {"extracted", "extractFailed"}
     /\ WellFormedHeader(cBuffer)
     /\ CompleteHeaders(cBuffer) < DeclaredCount(cBuffer))
        => /\ cPc = "extracted"
           /\ Len(cOut) = CompleteHeaders(cBuffer)
           /\ \A k \in 1..Len(cOut) : cOut[k].name = DeclaredAt(cBuffer, k - 1).name

(***************************************************************************)
(* Worker handles (worker.js): createWorker, terminateWorker               *)
(***************************************************************************)
WorkerTypes == {"encode", "decode"}

\* worker.terminate() on worker k
Terminate(ws, k) == [ws EXCEPT ![k].running = FALSE]

\* createWorker constructing a Worker at every call
CreateWorker_alwaysNew(type, enc, dec, ws) ==
    LET new == Len(ws) + 1
    IN  [encodeWorker |-> IF type = "encode" THEN new ELSE enc,
         decodeWorker |-> IF type = "encode" THEN dec ELSE new,
         workers |-> Append(ws, [type |-> type, running |-> TRUE]),
         returned |-> new]

\* createWorker(type): the handles, the workers and the worker returned
CreateWorker(type, enc, dec, ws) ==
    LET new == Len(ws) + 1
    IN  IF type = "encode"
        THEN IF enc = 0
             THEN [encodeWorker |-> new, decodeWorker |-> dec,
                   workers |-> Append(ws, [type |-> "encode", running |-> TRUE]),
                   returned |-> new]
             ELSE [encodeWorker |-> enc, decodeWorker |-> dec, workers |-> ws,
                   returned |-> enc]
        ELSE IF dec = 0
             THEN [encodeWorker |-> enc, decodeWorker |-> new,
                   workers |-> Append(ws, [type |-> "decode", running |-> TRUE]),
                   returned |-> new]
             ELSE [encodeWorker |-> enc, decodeWorker |-> dec, workers |-> ws,
                   returned |-> dec]

\* terminateWorker(type): the handles and the workers
TerminateWorker(type, enc, dec, ws) ==
    IF type = "encode" /\ enc # 0
    THEN [encodeWorker |-> 0, decodeWorker |-> dec, workers |-> Terminate(ws, enc)]
    ELSE IF dec # 0
    THEN [encodeWorker |-> enc, decodeWorker |-> 0, workers |-> Terminate(ws, dec)]
    ELSE [encodeWorker |-> enc, decodeWorker |-> dec, workers |-> ws]

HandleInit ==
    /\ HandleIdle
    /\ PlannerIdle
    /\ ContainerIdle
    /\ SingleIdle
    /\ TabIdle
    /\ PreviewIdle
    /\ WorkerIdle
    /\ EmbedIdle

createWorker(type) ==
    /\ \/ Len(workers) < MaxWorkers
       \/ (IF type = "encode" THEN encodeWorker ELSE decodeWorker) # 0
    /\ LET r == CreateWorker(type, encodeWorker, decodeWorker, workers)
       IN  /\ encodeWorker' = r.encodeWorker
           /\ decodeWorker' = r.decodeWorker
           /\ workers' = r.workers
           /\ lastCall' = [op |-> "createWorker", type |-> type, returned |-> r.returned]
    /\ UNCHANGED <<plannerVars, containerVars, singleVars, tabVars, previewVars,
                   workerVars, embedVars>>

terminateWorker(type) ==
    /\ LET r == TerminateWorker(type, encodeWorker, decodeWorker, workers)
       IN  /\ encodeWorker' = r.encodeWorker
           /\ decodeWorker' = r.decodeWorker
           /\ workers' = r.workers
           /\ lastCall' = [op |-> "terminateWorker", type |-> type, returned |-> 0]
    /\ UNCHANGED <<plannerVars, containerVars, singleVars, tabVars, previewVars,
                   workerVars, embedVars>>

\* terminateAllWorkers(): terminateWorker('encode'), then terminateWorker('decode')
terminateAllWorkers ==
    /\ LET first == TerminateWorker("encode", encodeWorker, decodeWorker, workers)
           r == TerminateWorker("decode", first.encodeWorker, first.decodeWorker,
                                first.workers)
       IN  /\ encodeWorker' = r.encodeWorker
           /\ decodeWorker' = r.decodeWorker
           /\ workers' = r.workers
           /\ lastCall' = [op |-> "terminateAllWorkers", type |-> "none", returned |-> 0]
    /\ UNCHANGED <<plannerVars, containerVars, singleVars, tabVars, previewVars,
                   workerVars, embedVars>>

HandleNext ==
    \/ \E type \in WorkerTypes : createWorker(type)
    \/ \E type \in WorkerTypes : terminateWorker(type)
    \/ terminateAllWorkers

SpecHandle == HandleInit /\ [][HandleNext]_vars

(***************************************************************************)
(* Embed tab (embed.js): the selection of files                            *)
(***************************************************************************)
MB == 1024 * 1024

\* file.size of the files a user selects or drops
EmbedSizes == {4 * MB, 10 * MB, (10 * MB) + 1, 12 * MB}

\* the lists of files handed to handleFiles
Batches == UNION {[1..k -> EmbedSizes] : k \in 0..MaxBatch}

\* the values typed into the maximum size field (0: not a number)
MaxSizeValues == {0, 5, DEFAULT_MAX_SIZE_MB, 30}

\* parseInt(maxSizeInput.value) || DEFAULT_MAX_SIZE_MB
ParsedMaxSize(value) == IF value = 0 THEN DEFAULT_MAX_SIZE_MB ELSE value

\* validateFileSize(file, maxSizeMB) throws
FileTooLarge(size, maxSizeMB) == size > maxSizeMB * MB

\* validateTotalSize(files, maxTotalSizeMB) throws
TotalTooLarge(sizes, maxTotalSizeMB) == SumSeq(sizes) > maxTotalSizeMB * MB

\* handleFiles(files): selectedFiles after the call, and whether it threw
HandleFiles(selection, files, maxSize) ==
    IF \E k \in 1..Len(files) : FileTooLarge(files[k], maxSize)
    THEN [selection |-> selection, threw |-> TRUE]
    ELSE [selection |-> selection \o files,
          threw |-> TotalTooLarge(selection \o files, MAX_TOTAL_SIZE_MB)]

\* selectedFiles.splice(index, 1)
Splice(selection, index) ==
    [k \in 1..(Len(selection) - 1) |->
        IF k <= index THEN selection[k] ELSE selection[k + 1]]

EmbedInit ==
    /\ EmbedIdle
    /\ PlannerIdle
    /\ ContainerIdle
    /\ SingleIdle
    /\ TabIdle
    /\ PreviewIdle
    /\ WorkerIdle
    /\ HandleIdle

handleFiles(files) ==
    /\ Len(embedSelection) + Len(files) <= MaxSelected
    /\ LET r == HandleFiles(embedSelection, files, ParsedMaxSize(maxSizeInput))
       IN  /\ embedSelection' = r.selection
           /\ lastBatch' = [files |-> files, before |-> embedSelection,
                            threw |-> r.threw]
    /\ UNCHANGED <<maxSizeInput, plannerVars, containerVars, singleVars, tabVars,
                   previewVars, workerVars, handleVars>>

removeFile(index) ==
    /\ embedSelection' = IF index >= 0 /\ index < Len(embedSelection)
                         THEN Splice(embedSelection, index)
                         ELSE embedSelection
    /\ lastBatch' = NoBatch
    /\ UNCHANGED <<maxSizeInput, plannerVars, containerVars, singleVars, tabVars,
                   previewVars, workerVars, handleVars>>

\* the change handler of maxSizeInput, the user having typed value
maxSizeChange(value) ==
    /\ maxSizeInput' = IF TotalTooLarge(embedSelection, ParsedMaxSize(value))
                       THEN DEFAULT_MAX_SIZE_MB
                       ELSE value
    /\ lastBatch' = NoBatch
    /\ UNCHANGED <<embedSelection, plannerVars, containerVars, singleVars, tabVars,
                   previewVars, workerVars, handleVars>>

EmbedNext ==
    \/ \E files \in Batches : handleFiles(files)
    \/ \E index \in 0..MaxSelected : removeFile(index)
    \/ \E value \in MaxSizeValues : maxSizeChange(value)

SpecEmbed == EmbedInit /\ [][EmbedNext]_vars

(***************************************************************************)
(* Properties of the workers                                               *)
(***************************************************************************)
\* the message posted to the encode worker is the buffer and the grid of an
\* encodeFileToCanvas call
IsCanvasRequest(request) == \E f \in WorkerFiles : request = CanvasRequest(f)

\* the R, G and B elements of a grid that lie beyond the end of the buffer
UnusedChannels(width, height, byteLength) ==
    {j \in 1..(4 * width * height) :
        /\ (j - 1) % 4 < 3
        /\ (3 * ((j - 1) \div 4)) + ((j - 1) % 4) >= byteLength}

\* C24: trailing capacity has one consistent default. For the same buffer and
\* dimensions, the grid the encode worker completes with and the grid
\* encodeFileToCanvas fills hold the same value in every R, G and B channel
\* beyond the end of the buffer.
C24_OneTrailingDefault ==
    (ewPc = "complete" /\ IsCanvasRequest(ewRequest))
        => LET canvasPath == EncodeFrom(Zeros(4 * ewRequest.width * ewRequest.height),
                                        ewRequest.fileData, 0)
           IN  \A j \in UnusedChannels(ewRequest.width, ewRequest.height,
                                       Len(ewRequest.fileData)) :
                   ewPixels[j] = canvasPath[j]

\* C26: the decode worker always terminates. With its timers run fairly, the
\* decode worker posts 'complete' after every request, exactly once, and has
\* no timer pending afterwards, also when the image holds fewer than
\* headerSize + dataLength bytes.
C26_DecodeWorkerTerminates ==
    /\ (dwPc # "idle") ~> (dwPc = "complete")
    /\ [](dwCompletes <= 1)
    /\ []((dwPc = "complete") => (dwCompletes = 1 /\ dwTimer = NoTimer))

\* the grid holds every byte of the buffer
SufficientCapacity(request) ==
    3 * request.width * request.height >= Len(request.fileData)

\* C27: worker round-trip. For a buffer B encoded by the encode worker on a
\* grid of sufficient capacity, with any chunk sizes, the decode worker
\* applied with headerSize h and dataLength L, h + L <= length of B,
\* completes with exactly the bytes B[h .. h+L-1], in order.
C27_WorkerRoundTrip ==
    (/\ dwPc # "idle"
     /\ SufficientCapacity(ewRequest)
     /\ dwRequest.headerSize + dwRequest.dataLength <= Len(ewRequest.fileData))
        => (dwPc = "complete"
               => dwResult = Slice(ewRequest.fileData, dwRequest.headerSize,
                                   dwRequest.headerSize + dwRequest.dataLength))

\* a round trip with a header skipped, both workers taking several chunks of
\* a size that is not a multiple of 3
C27_Witness ==
    /\ dwPc = "complete"
    /\ SufficientCapacity(ewRequest)
    /\ dwRequest.headerSize = 1
    /\ dwRequest.dataLength = 4
    /\ Len(ewRequest.fileData) = 5
    /\ ewRequest.chunkSize = 2
    /\ dwRequest.chunkSize = 2
    /\ dwResult = <<15, 22, 29, 36>>

(***************************************************************************)
(* Properties of the worker handles                                        *)
(***************************************************************************)
\* the workers of a type that have not been terminated
RunningWorkers(ws, type) == {k \in 1..Len(ws) : ws[k].type = type /\ ws[k].running}

\* the step is the call terminateWorker(type)
TerminateCall(type) == lastCall' = [op |-> "terminateWorker", type |-> type, returned |-> 0]

\* C28: terminateWorker touches only the worker it names. A call
\* terminateWorker('encode') leaves the decode handle unchanged and the
\* decode worker running, also when there is no encode worker, and a call
\* terminateWorker('decode') leaves the encode handle and worker unchanged.
C28_TerminateOnlyNamed ==
    [][/\ TerminateCall("encode")
           => /\ decodeWorker' = decodeWorker
              /\ RunningWorkers(workers', "decode") = RunningWorkers(workers, "decode")
       /\ TerminateCall("decode")
           => /\ encodeWorker' = encodeWorker
              /\ RunningWorkers(workers', "encode") = RunningWorkers(workers, "encode")]_vars

\* the handle of a type
Handle(type) == IF type = "encode" THEN encodeWorker ELSE decodeWorker

\* the running workers are the ones the handles reference
NoLeak ==
    /\ \A type \in WorkerTypes :
          /\ Cardinality(RunningWorkers(workers, type)) <= 1
          /\ RunningWorkers(workers, type) = IF Handle(type) = 0 THEN {} ELSE {Handle(type)}
    /\ (lastCall.op = "terminateAllWorkers")
           => (encodeWorker = 0 /\ decodeWorker = 0
               /\ \A k \in 1..Len(workers) : ~workers[k].running)

\* createWorker returns the live worker of the type, and constructs a worker
\* only when the handle is null
CreateReusesWorker ==
    \A type \in WorkerTypes :
        (lastCall'.op = "createWorker" /\ lastCall'.type = type)
            => IF Handle(type) # 0
               THEN lastCall'.returned = Handle(type) /\ workers' = workers
               ELSE /\ Len(workers') = Len(workers) + 1
                    /\ lastCall'.returned = Len(workers')
                    /\ RunningWorkers(workers', type) = {lastCall'.returned}

\* C29: worker handles never leak. After any sequence of createWorker,
\* terminateWorker and terminateAllWorkers calls at most one worker of each
\* type runs and it is the one its handle references, createWorker returns
\* the live worker of the type and constructs one only when the handle is
\* null, and after terminateAllWorkers both handles are null and no worker
\* runs.
C29_HandlesNeverLeak == []NoLeak /\ [][CreateReusesWorker]_vars

\* terminateAllWorkers has ended an encode and a decode worker, others having
\* been created and terminated before
C29_Witness ==
    /\ lastCall.op = "terminateAllWorkers"
    /\ Len(workers) >= 3
    /\ \E k \in 1..Len(workers) : workers[k].type = "encode"
    /\ \E k \in 1..Len(workers) : workers[k].type = "decode"
    /\ encodeWorker = 0 /\ decodeWorker = 0

(***************************************************************************)
(* Properties of the selection of the embed tab                            *)
(***************************************************************************)
\* C30: a rejected batch leaves the selection unchanged. After any sequence
\* of handleFiles and removeFile calls the total size of selectedFiles is at
\* most MAX_TOTAL_SIZE_MB megabytes, and after a handleFiles call that threw,
\* for a file over the per-file limit or for the total size, selectedFiles
\* is what it was before the call.
C30_RejectedBatchKeepsSelection ==
    /\ SumSeq(embedSelection) <= MAX_TOTAL_SIZE_MB * MB
    /\ lastBatch.threw => embedSelection = lastBatch.before
====
